---- MODULE Spec2Model ----
(***************************************************************************)
(* Verification model of the cskiro/claudex scripts.                       *)
(*                                                                         *)
(*   SpecProc  conversation-processor.py: process_file / process_project   *)
(*             over a SQLite connection (connection view vs. durable       *)
(*             database).                                                  *)
(*   SpecIdx   rag_indexer.py: index_conversations over the relational     *)
(*             store the processor fills and the vector collection.        *)
(***************************************************************************)
EXTENDS Integers, Sequences, FiniteSets, Bags, TLC

(***************************************************************************)
(* Bounds                                                                  *)
(***************************************************************************)
\* file modification times range over 1..MaxTime
MaxTime == 2
\* --batch-size ranges over -1..MaxBatch
MaxBatch == 2

(***************************************************************************)
(* Session transcript files (line-delimited JSON)                          *)
(***************************************************************************)
\* A path is <<project directory, stem>>; every *.jsonl of the one project
\* directory that process_project globs.
ProjectFiles == { <<"proj", "a">>, <<"proj", "b">> }

\* file_path.stem
Stem(path) == path[2]

\* A JSON integer too large for an SQLite INTEGER (2^70): binding it in an
\* INSERT raises OverflowError.
Unstorable == "1180591620717411303424"

\* One line of a transcript.  kind: "blank" (whitespace only), "invalid"
\* (json.loads raises JSONDecodeError), "scalar" (valid JSON that is not an
\* object), "object" (a JSON object).  For objects: type is msg['type'],
\* text the words of the message text, tools the names of its tool_use
\* blocks, read/written/edited the paths the file patterns find in the
\* text.
Line(kind, type, text, tools, read, written, edited) ==
    [kind |-> kind, type |-> type, text |-> text, tools |-> tools,
     read |-> read, written |-> written, edited |-> edited]

Blank == Line("blank", "", {}, {}, {}, {}, {})
Invalid == Line("invalid", "", {}, {}, {}, {}, {})
Scalar == Line("scalar", "", {}, {}, {}, {}, {})
User(text) == Line("object", "user", text, {}, {}, {}, {})
Assistant(text, tools, read, written, edited) ==
    Line("object", "assistant", text, tools, read, written, edited)
System == Line("object", "system", {}, {}, {}, {}, {})

AppPy == <<"src", "components", "app">>
ReadMe == <<"docs", "readme">>

\* The transcripts the files may hold.
Transcripts ==
    { << >>,
      << User({"fix", "auth"}), Invalid, Blank,
         Assistant({"reading"}, {"Read"}, {AppPy}, {}, {}) >>,
      << System, User({"add", "testing"}),
         Assistant({"done"}, {"Edit"}, {ReadMe}, {}, {AppPy}), User({"thanks"}) >>,
      << User({"fix", "auth"}), Scalar >>,
      << User({"deploy"}), Assistant({"ok"}, {"Read", Unstorable}, {}, {AppPy}, {}) >> }

\* A file as the processor sees it: unreadable files (broken symlink,
\* permission denied) are still returned by glob.
FileStates ==
    [readable : {TRUE}, lines : Transcripts, mtime : 1..MaxTime]
    \cup [readable : {FALSE}, lines : {<< >>}, mtime : {1}]

\* hashlib.sha256 over the bytes of the file: a digest of the lines only.
ComputeFileHash(file) == <<"sha256", file.lines>>

(***************************************************************************)
(* The relational store                                                    *)
(***************************************************************************)
EmptyDB ==
    [conversations |-> {}, file_interactions |-> EmptyBag,
     tool_usage |-> EmptyBag, processing_state |-> {}]

\* DELETE FROM <bag table> WHERE conversation_id = id
DeleteWhere(bag, id) ==
    [e \in {x \in DOMAIN bag : x.conversation_id # id} |-> bag[e]]

\* INSERT of one row into a table without uniqueness constraints
InsertRow(bag, row) == bag (+) SetToBag({row})

RECURSIVE InsertAll(_, _)
InsertAll(bag, rows) ==
    IF rows = {} THEN bag
    ELSE LET r == CHOOSE x \in rows : TRUE
         IN  InsertAll(InsertRow(bag, r), rows \ {r})

\* INSERT OR REPLACE INTO conversations: SQLite first deletes every row
\* that conflicts on the PRIMARY KEY (id) or on the UNIQUE column
\* (conversation_hash), then inserts.
ReplaceConversation(rows, new) ==
    {r \in rows : r.id # new.id /\ r.conversation_hash # new.conversation_hash}
        \cup {new}

\* INSERT OR REPLACE INTO processing_state (PRIMARY KEY file_path)
ReplaceProcessingState(rows, new) ==
    {r \in rows : r.file_path # new.file_path} \cup {new}

(***************************************************************************)
(* ConversationProcessor                                                   *)
(***************************************************************************)
\* A variant of _needs_processing that compares the stored last_modified
\* with the file's mtime instead of the hashes.
NeedsProcessingByMtime(db, path, file) ==
    LET rows == {r \in db.processing_state : r.file_path = path}
    IN  IF rows = {} THEN TRUE
        ELSE \E r \in rows : r.last_modified # file.mtime

\* _needs_processing, reindex=False, on a readable file
NeedsProcessing(db, path, file) ==
    LET rows == {r \in db.processing_state : r.file_path = path}
    IN  IF rows = {} THEN TRUE
        ELSE \E r \in rows : r.file_hash # ComputeFileHash(file)

\* _parse_jsonl_file: blank lines are skipped, a JSONDecodeError drops the
\* line, every other line is appended.
RECURSIVE ParseJsonl(_)
ParseJsonl(lines) ==
    IF lines = << >> THEN << >>
    ELSE LET line == Head(lines)
             rest == ParseJsonl(Tail(lines))
         IN  IF line.kind \in {"blank", "invalid"} THEN rest
             ELSE <<line>> \o rest

CountType(messages, type) ==
    Cardinality({i \in 1..Len(messages) : messages[i].type = type})

\* first_user_msg: the first user message with non-empty text
FirstUserMessage(messages) ==
    LET idx == {i \in 1..Len(messages) :
                    messages[i].type = "user" /\ messages[i].text # {}}
    IN  IF idx = {} THEN {}
        ELSE messages[CHOOSE i \in idx : \A j \in idx : i <= j].text

\* last_assistant_msg: the last assistant message with non-empty text
LastAssistantMessage(messages) ==
    LET idx == {i \in 1..Len(messages) :
                    messages[i].type = "assistant" /\ messages[i].text # {}}
    IN  IF idx = {} THEN {}
        ELSE messages[CHOOSE i \in idx : \A j \in idx : i >= j].text

\* The keywords of common_topics that the model's vocabulary contains
CommonTopics == {"auth", "testing", "fix", "add", "deploy"}

\* The text _extract_topics scans: the user messages up to the third one
\* with text, and the assistant messages before it.
RECURSIVE TopicText(_, _)
TopicText(messages, user_count) ==
    IF messages = << >> THEN {}
    ELSE LET msg == Head(messages)
         IN  IF msg.type = "user" /\ msg.text # {}
               THEN IF user_count + 1 >= 3 THEN msg.text
                    ELSE msg.text \cup TopicText(Tail(messages), user_count + 1)
             ELSE IF msg.type = "assistant" /\ user_count < 3
               THEN msg.text \cup TopicText(Tail(messages), user_count)
             ELSE TopicText(Tail(messages), user_count)

\* _extract_topics
ExtractTopics(messages) == TopicText(messages, 0) \cap CommonTopics

\* msg.get('type', '') raises AttributeError on a message that is not a dict
ProcessRaises(messages) == \E i \in 1..Len(messages) : messages[i].kind = "scalar"

\* _process_conversation
ProcessConversation(path, file, messages) ==
    LET asst == {i \in 1..Len(messages) : messages[i].type = "assistant"}
        withText == {i \in asst : messages[i].text # {}}
    IN  [id |-> Stem(path),
         project_path |-> path[1],
         timestamp |-> file.mtime,
         message_count |-> Len(messages),
         user_messages |-> CountType(messages, "user"),
         assistant_messages |-> CountType(messages, "assistant"),
         files_read |-> UNION {messages[i].read : i \in withText},
         files_written |-> UNION {messages[i].written : i \in withText},
         files_edited |-> UNION {messages[i].edited : i \in withText},
         tools_used |-> UNION {messages[i].tools : i \in asst},
         topics |-> ExtractTopics(messages),
         first_user_message |-> FirstUserMessage(messages),
         last_assistant_message |-> LastAssistantMessage(messages),
         conversation_hash |-> ComputeFileHash(file)]

FileRows(md) ==
    {[conversation_id |-> md.id, file_path |-> p, interaction_type |-> "read"] :
        p \in md.files_read}
    \cup
    {[conversation_id |-> md.id, file_path |-> p, interaction_type |-> "write"] :
        p \in md.files_written}
    \cup
    {[conversation_id |-> md.id, file_path |-> p, interaction_type |-> "edit"] :
        p \in md.files_edited}

ToolRows(md, tools) ==
    {[conversation_id |-> md.id, tool_name |-> t, usage_count |-> 1] : t \in tools}

StoreRaises(md) == Unstorable \in md.tools_used

\* A variant of _store_conversation without the two DELETE statements.
StoreConversationInsertOnly(db, md, inserted) ==
    [db EXCEPT
        !.conversations = ReplaceConversation(@, md),
        !.file_interactions = InsertAll(@, FileRows(md)),
        !.tool_usage = InsertAll(@, ToolRows(md, inserted))]

\* _store_conversation.  inserted: the tools whose rows are inserted before
\* the loop over metadata.tools_used (a list built from a set, so in
\* arbitrary order) reaches one that cannot be bound and raises; all of
\* them when none raises.
StoreConversation(db, md, inserted) ==
    [db EXCEPT
        !.conversations = ReplaceConversation(@, md),
        !.file_interactions = InsertAll(DeleteWhere(@, md.id), FileRows(md)),
        !.tool_usage = InsertAll(DeleteWhere(@, md.id), ToolRows(md, inserted))]

\* _update_processing_state
UpdateProcessingState(db, path, file) ==
    [db EXCEPT !.processing_state =
        ReplaceProcessingState(@, [file_path |-> path,
                                   last_modified |-> file.mtime,
                                   file_hash |-> ComputeFileHash(file)])]

\* The tool rows a store of md may have inserted when it stops
InsertedChoices(md) ==
    IF StoreRaises(md) THEN SUBSET (md.tools_used \ {Unstorable})
    ELSE {md.tools_used}

\* process_file on a connection c = [view, durable]: view is what the
\* connection reads (its own uncommitted writes included), durable what is
\* committed.  ret is "True", "False", or "raise" when the exception leaves
\* process_file.
ProcessFile(c, path, file, reindex, inserted) ==
    LET messages == ParseJsonl(file.lines)
        md == ProcessConversation(path, file, messages)
        stored == StoreConversation(c.view, md, inserted)
        done == UpdateProcessingState(stored, path, file)
        Result(view, durable, ret, entered) ==
            [view |-> view, durable |-> durable, ret |-> ret, entered |-> entered]
    IN  IF ~reindex /\ ~file.readable
          THEN Result(c.view, c.durable, "raise", FALSE)
        ELSE IF ~reindex /\ ~NeedsProcessing(c.view, path, file)
          THEN Result(c.view, c.durable, "False", FALSE)
        ELSE IF ~file.readable
          THEN Result(c.view, c.durable, "False", TRUE)
        ELSE IF messages = << >>
          THEN Result(c.view, c.durable, "False", TRUE)
        ELSE IF ProcessRaises(messages)
          THEN Result(c.view, c.durable, "False", TRUE)
        ELSE IF StoreRaises(md)
          THEN Result(stored, c.durable, "False", TRUE)
        ELSE Result(done, done, "True", TRUE)

(***************************************************************************)
(* State                                                                   *)
(***************************************************************************)
VARIABLES
    fs,         \* the transcript files: path -> file
    conn,       \* the processor's connection: [view, durable]
    run,        \* the process_project loop of the current invocation
    last,       \* the latest process_file call: its arguments, whether it
                \* got past _needs_processing (entered), what it returned,
                \* and how the stored file_hash compared before the call
    collection, \* the "conversations" collection of the vector store
    idx,        \* the latest index_conversations call
    cli,        \* one script invocation and the connections it holds
    srch,       \* the latest search-conversations.py invocation
    pre,        \* the run of PreReleaseValidator
    mkt,        \* the run of MarketplaceValidator
    skl,        \* the run of SkillsValidator
    aud         \* the latest call of an audit function

procVars == <<fs, conn, run, last>>
idxVars == <<collection, idx>>
toolVars == <<cli, srch, pre, mkt, skl, aud>>
vars == <<procVars, idxVars, toolVars>>

\* No index_conversations call is in progress or was just made.
IdxIdle == [pc |-> "idle", rebuild |-> FALSE, batch_size |-> 0,
            batches |-> << >>, raised |-> FALSE, ret |-> 0]

NoCall == [path |-> <<"", "">>, reindex |-> FALSE, ret |-> "none",
           entered |-> FALSE, stored |-> "none"]
Idle == [pc |-> "idle", reindex |-> FALSE, queue |-> << >>, processed_count |-> 0,
         results |-> << >>, returned |-> -1]

\* No script invocation is under way.
CliIdle == [pc |-> "idle", script |-> "none", args |-> {}, open |-> {},
            opened |-> 0, constructed |-> FALSE, how |-> "none", exit_code |-> -1]

NoArgs == [query |-> "", semantic |-> TRUE, file |-> << >>, tool |-> "",
           date_from |-> 0, date_to |-> 0, limit |-> 1]
SrchIdle == [pc |-> "idle", args |-> NoArgs, mode |-> "none", results |-> << >>,
             exit_code |-> -1]

PreIdle == [pc |-> "idle", quick |-> FALSE, loaded |-> FALSE, results |-> << >>,
            outcome |-> "none", all_passed |-> TRUE, scripts |-> << >>,
            ret |-> "none", exit_code |-> -1]

MktIdle == [pc |-> "idle", input |-> [file |-> "none"], errors |-> << >>, warnings |-> << >>,
            completed |-> FALSE, ret |-> "none", exit_code |-> -1]

SklIdle == [pc |-> "idle", structure |-> "none", target |-> "none", queue |-> << >>,
            results |-> << >>, ret |-> "none", exit_code |-> -1]

AudIdle == [pc |-> "idle", tool |-> "none", input |-> << >>, output |-> << >>]

ToolsIdle ==
    /\ cli = CliIdle
    /\ srch = SrchIdle
    /\ pre = PreIdle
    /\ mkt = MktIdle
    /\ skl = SklIdle
    /\ aud = AudIdle

\* How the file_hash stored for path compares with the file: "absent" (no
\* processing_state row), "same", "differs", or "unreadable" file.
StoredVersus(db, path, file) ==
    LET hashes == {r.file_hash : r \in {x \in db.processing_state : x.file_path = path}}
    IN  IF ~file.readable THEN "unreadable"
        ELSE IF hashes = {} THEN "absent"
        ELSE IF ComputeFileHash(file) \in hashes THEN "same"
        ELSE "differs"

Perms(S) ==
    {s \in [1..Cardinality(S) -> S] : \A i, j \in 1..Cardinality(S) : i # j => s[i] # s[j]}

\* The states the processor's runs see a transcript in: the modification
\* time of a.jsonl varies, b.jsonl keeps the time it was written at.
ProcFileStates(path) ==
    {f \in FileStates : path # <<"proj", "a">> => f.mtime = 1}

InitProc ==
    /\ fs \in [ProjectFiles -> FileStates]
    /\ \A path \in ProjectFiles : fs[path] \in ProcFileStates(path)
    /\ conn = [view |-> EmptyDB, durable |-> EmptyDB]
    /\ run = Idle
    /\ last = NoCall
    /\ collection = {}
    /\ idx = IdxIdle
    /\ ToolsIdle

\* Between invocations something rewrites or touches a transcript.
WriteFile(path, file) ==
    /\ run.pc = "idle"
    /\ fs[path] # file
    /\ idx.pc = "idle"
    /\ fs' = [fs EXCEPT ![path] = file]
    /\ UNCHANGED <<conn, run, last, idxVars, toolVars>>

\* main -> ConversationProcessor(db_path) -> process_project up to the loop:
\* the connection is opened on the durable database and the files globbed.
StartProject(reindex, order) ==
    /\ run.pc = "idle"
    /\ idx.pc = "idle"
    /\ run' = [pc |-> "loop", reindex |-> reindex, queue |-> order,
               processed_count |-> 0, results |-> << >>, returned |-> -1]
    /\ conn' = [view |-> conn.durable, durable |-> conn.durable]
    /\ last' = NoCall
    /\ UNCHANGED <<fs, idxVars, toolVars>>

\* One iteration of "for jsonl_file in jsonl_files".  An exception leaving
\* process_file leaves process_project too; main's finally closes the
\* connection, which discards what was not committed.
ProcessNext(inserted) ==
    /\ run.pc = "loop"
    /\ run.queue # << >>
    /\ LET path == Head(run.queue)
           r == ProcessFile(conn, path, fs[path], run.reindex, inserted)
       IN  /\ inserted \in InsertedChoices(
                   ProcessConversation(path, fs[path], ParseJsonl(fs[path].lines)))
           /\ last' = [path |-> path, reindex |-> run.reindex, ret |-> r.ret,
                        entered |-> r.entered,
                        stored |-> StoredVersus(conn.view, path, fs[path])]
           /\ IF r.ret = "raise"
                THEN /\ run' = [run EXCEPT !.pc = "aborted",
                                           !.results = Append(@, r.ret)]
                     /\ conn' = [view |-> r.durable, durable |-> r.durable]
                ELSE /\ run' = [run EXCEPT
                            !.queue = Tail(@),
                            !.results = Append(@, r.ret),
                            !.processed_count = IF r.ret = "True" THEN @ + 1 ELSE @]
                     /\ conn' = [view |-> r.view, durable |-> r.durable]
    /\ UNCHANGED <<fs, idxVars, toolVars>>

\* The loop is over: process_project returns processed_count and main's
\* finally closes the connection.
FinishProject ==
    /\ run.pc = "loop"
    /\ run.queue = << >>
    /\ run' = [run EXCEPT !.pc = "done", !.returned = run.processed_count]
    /\ conn' = [view |-> conn.durable, durable |-> conn.durable]
    /\ UNCHANGED <<fs, last, idxVars, toolVars>>

\* The process has ended; the next invocation may start.
ExitProcessor ==
    /\ run.pc \in {"done", "aborted"}
    /\ run' = Idle
    /\ last' = NoCall
    /\ UNCHANGED <<fs, conn, idxVars, toolVars>>

NextProc ==
    \/ \E path \in ProjectFiles : \E file \in ProcFileStates(path) : WriteFile(path, file)
    \/ \E reindex \in BOOLEAN, order \in Perms(ProjectFiles) : StartProject(reindex, order)
    \/ \E inserted \in SUBSET {"Read", "Edit"} : ProcessNext(inserted)
    \/ FinishProject
    \/ ExitProcessor

SpecProc == InitProc /\ [][NextProc]_vars


(***************************************************************************)
(* RAGIndexer                                                              *)
(***************************************************************************)
\* _create_document_text: the labelled parts that are not empty, in order
CreateDocumentText(conv) ==
    LET all_files == conv.files_read \cup conv.files_written \cup conv.files_edited
    IN  (IF conv.first_user_message # {}
           THEN << <<"User", conv.first_user_message>> >> ELSE << >>)
        \o (IF conv.last_assistant_message # {}
              THEN << <<"Assistant", conv.last_assistant_message>> >> ELSE << >>)
        \o (IF conv.topics # {} THEN << <<"Topics", conv.topics>> >> ELSE << >>)
        \o (IF all_files # {} THEN << <<"Files", all_files>> >> ELSE << >>)

\* _create_metadata
CreateMetadata(conv) ==
    [timestamp |-> conv.timestamp, topics |-> conv.topics,
     files_read |-> conv.files_read, files_written |-> conv.files_written,
     files_edited |-> conv.files_edited]

\* self.model.encode: the embedding is a function of the document
Encode(document) == <<"embedding", document>>

\* What one conversation row contributes to collection.add
EntryOf(conv) ==
    [id |-> conv.id, document |-> CreateDocumentText(conv),
     embedding |-> Encode(CreateDocumentText(conv)),
     metadata |-> CreateMetadata(conv)]

\* _get_indexed_conversation_ids
IndexedIds(coll) == {e.id : e \in coll}

\* A variant of _fetch_conversations_to_index that selects every
\* conversation whatever is indexed already.
FetchAllConversations(db, coll, rebuild) == db.conversations

\* _fetch_conversations_to_index: the rows selected (their order is
\* ORDER BY timestamp DESC, see TimestampDesc)
FetchConversationsToIndex(db, coll, rebuild) ==
    IF rebuild \/ IndexedIds(coll) = {} THEN db.conversations
    ELSE {r \in db.conversations : r.id \notin IndexedIds(coll)}

\* ORDER BY timestamp DESC; rows with equal timestamps come in any order
TimestampDesc(rows) ==
    \A i, j \in 1..Len(rows) : i < j => rows[i].timestamp >= rows[j].timestamp

\* for i in range(0, len(conversations), batch_size): conversations[i:i+batch_size]
\* for batch_size >= 1; range() with a negative step is empty.
RECURSIVE BatchesOf(_, _)
BatchesOf(conversations, batch_size) ==
    IF batch_size < 1 \/ conversations = << >> THEN << >>
    ELSE IF Len(conversations) <= batch_size THEN << conversations >>
    ELSE << SubSeq(conversations, 1, batch_size) >>
         \o BatchesOf(SubSeq(conversations, batch_size + 1, Len(conversations)),
                      batch_size)

\* collection.add: an id that the collection holds already is left as it is
CollectionAdd(coll, batch) ==
    coll \cup {EntryOf(batch[i]) : i \in {j \in 1..Len(batch) :
                                          batch[j].id \notin IndexedIds(coll)}}

RECURSIVE AddBatches(_, _)
AddBatches(coll, batches) ==
    IF batches = << >> THEN coll
    ELSE AddBatches(CollectionAdd(coll, Head(batches)), Tail(batches))

RECURSIVE SumLen(_)
SumLen(batches) ==
    IF batches = << >> THEN 0 ELSE Len(Head(batches)) + SumLen(Tail(batches))

IdsOf(batch) == [i \in 1..Len(batch) |-> batch[i].id]

\* index_conversations on the committed database; conversations is the
\* fetched list in the order the query returned it.  range(0, n, 0) raises
\* ValueError (raised), after the collection was recreated when rebuild is
\* set; ret is the value returned otherwise.
IndexConversations(coll, rebuild, batch_size, conversations) ==
    LET start == IF rebuild THEN {} ELSE coll
        batches == BatchesOf(conversations, batch_size)
    IN  IF conversations = << >>
          THEN [collection |-> start, batches |-> << >>, raised |-> FALSE, ret |-> 0]
        ELSE IF batch_size = 0
          THEN [collection |-> start, batches |-> << >>, raised |-> TRUE, ret |-> 0]
        ELSE [collection |-> AddBatches(start, batches),
              batches |-> [i \in 1..Len(batches) |-> IdsOf(batches[i])],
              raised |-> FALSE, ret |-> SumLen(batches)]

SeqsOver(S) ==
    {s \in [1..Cardinality(S) -> S] : \A i, j \in 1..Cardinality(S) : i # j => s[i] # s[j]}

\* rag_indexer.py main: one index_conversations call between processor runs
Index(rebuild, batch_size, conversations) ==
    /\ run.pc = "idle"
    /\ idx.pc \in {"idle", "done"}
    /\ conversations \in SeqsOver(FetchConversationsToIndex(
                            conn.durable, IF rebuild THEN {} ELSE collection, rebuild))
    /\ TimestampDesc(conversations)
    /\ LET r == IndexConversations(collection, rebuild, batch_size, conversations)
       IN  /\ collection' = r.collection
           /\ idx' = [pc |-> "done", rebuild |-> rebuild, batch_size |-> batch_size,
                      batches |-> r.batches, raised |-> r.raised, ret |-> r.ret]
    /\ UNCHANGED <<procVars, toolVars>>

\* The indexer process has ended.
ExitIndexer ==
    /\ idx.pc = "done"
    /\ idx' = IdxIdle
    /\ UNCHANGED <<procVars, collection, toolVars>>

\* The files of the indexing model: readable, every parsed line an object,
\* all of one modification time, so that ORDER BY timestamp DESC may return
\* the rows in any order.
IdxFileStates ==
    {f \in FileStates :
        f.readable /\ f.mtime = 1 /\ ~ProcessRaises(ParseJsonl(f.lines))}

InitIdx ==
    /\ fs \in [ProjectFiles -> IdxFileStates]
    /\ conn = [view |-> EmptyDB, durable |-> EmptyDB]
    /\ run = Idle
    /\ last = NoCall
    /\ collection = {}
    /\ idx = IdxIdle
    /\ ToolsIdle

NextIdx ==
    \/ \E path \in ProjectFiles, file \in IdxFileStates : WriteFile(path, file)
    \/ \E order \in Perms(ProjectFiles) : StartProject(FALSE, order)
    \/ \E inserted \in SUBSET {"Read", "Edit"} : ProcessNext(inserted)
    \/ FinishProject
    \/ ExitProcessor
    \/ \E rebuild \in BOOLEAN, batch_size \in -1..MaxBatch,
          conversations \in UNION {SeqsOver(S) : S \in SUBSET conn.durable.conversations} :
            Index(rebuild, batch_size, conversations)
    \/ ExitIndexer

SpecIdx == InitIdx /\ [][NextIdx]_vars

(***************************************************************************)
(* Properties of process_file / process_project                            *)
(***************************************************************************)
\* A step that is one call of process_file on the head of the queue
ProcessFileStep ==
    /\ run.pc = "loop"
    /\ run.queue # << >>
    /\ Len(run'.results) = Len(run.results) + 1

RowsOf(db, id) == {r \in db.conversations : r.id = id}
HashesOf(db, path) ==
    {r.file_hash : r \in {x \in db.processing_state : x.file_path = path}}

\* The call gets past _needs_processing exactly when no processing_state
\* row exists for the file or the stored hash differs from the file's.
C1_Gate(path) ==
    last'.entered <=>
        (HashesOf(conn.view, path) = {}
            \/ ComputeFileHash(fs[path]) \notin HashesOf(conn.view, path))

\* Hash unchanged: returns False and no table is written.
C1_Unchanged(path) ==
    ComputeFileHash(fs[path]) \in HashesOf(conn.view, path)
        => last'.ret = "False" /\ conn' = conn

\* After the call the conversation row of the file is the metadata of its
\* current content and the stored hash is the hash of that content.
C1_Replaced(path) ==
    LET md == ProcessConversation(path, fs[path], ParseJsonl(fs[path].lines))
    IN  /\ RowsOf(conn'.view, Stem(path)) = {md}
        /\ RowsOf(conn'.durable, Stem(path)) = {md}
        /\ HashesOf(conn'.view, path) = {ComputeFileHash(fs[path])}
        /\ HashesOf(conn'.durable, path) = {ComputeFileHash(fs[path])}

ContentChanged(path) ==
    /\ HashesOf(conn.view, path) # {}
    /\ ComputeFileHash(fs[path]) \notin HashesOf(conn.view, path)

SomeLineParses(path) ==
    \E i \in 1..Len(fs[path].lines) : fs[path].lines[i].kind \in {"object", "scalar"}

NothingRaises(path) ==
    LET messages == ParseJsonl(fs[path].lines)
    IN  /\ ~ProcessRaises(messages)
        /\ ~StoreRaises(ProcessConversation(path, fs[path], messages))

C5_Original ==
    /\ \A path \in ProjectFiles :
          Len(ParseJsonl(fs[path].lines)) =
              Cardinality({i \in 1..Len(fs[path].lines) :
                              fs[path].lines[i].kind \in {"object", "scalar"}})
    /\ \A i \in 1..Len(run.results) : run.results[i] \in {"True", "False"}
    /\ run.pc # "aborted"
    /\ run.pc = "done" =>
          /\ Len(run.results) = Cardinality(ProjectFiles)
          /\ run.returned =
                Cardinality({i \in 1..Len(run.results) : run.results[i] = "True"})

(***************************************************************************)
(* Properties of index_conversations                                       *)
(***************************************************************************)
StoreIds == {r.id : r \in conn.durable.conversations}

\* C2 as stated: after index_conversations completes, with or without
\* rebuild, the collection's entry for every conversation id is the one
\* derived from that conversation's current row (an upsert), also for a
\* conversation indexed earlier and re-processed since.
C2_Original ==
    idx.pc = "done" /\ ~idx.raised /\ idx.batch_size >= 1
        => \A r \in conn.durable.conversations :
              {e \in collection : e.id = r.id} = {EntryOf(r)}

\* A step that is one index_conversations call
IndexStep == idx'.pc = "done"

\* C3: an incremental run (rebuild=False) with batch_size >= 1 adds every
\* conversation whose id is not in the collection exactly once, in batches
\* of at most batch_size items, adds no id the collection holds already,
\* and returns the number added; run again straight after such a run, it
\* adds nothing and returns 0.
C3_Theorem ==
    [][IndexStep /\ ~idx'.rebuild /\ idx'.batch_size >= 1
        => LET missing == StoreIds \ IndexedIds(collection)
               batches == idx'.batches
               Places(id) == {p \in UNION {{<<i, j>> : j \in 1..Len(batches[i])} :
                                              i \in 1..Len(batches)} :
                                 batches[p[1]][p[2]] = id}
           IN  /\ \A i \in 1..Len(batches) :
                     Len(batches[i]) >= 1 /\ Len(batches[i]) <= idx'.batch_size
               /\ \A id \in missing : Cardinality(Places(id)) = 1
               /\ \A i \in 1..Len(batches) : \A j \in 1..Len(batches[i]) :
                     batches[i][j] \in missing
               /\ idx'.ret = Cardinality(missing)
               /\ collection \subseteq collection'
               /\ IndexedIds(collection') = IndexedIds(collection) \cup missing
               /\ (idx.pc = "done" /\ ~idx.rebuild /\ idx.batch_size >= 1
                      => idx'.ret = 0 /\ batches = << >> /\ collection' = collection)]_vars

\* An incremental run with batch_size 1 has just added two conversations
\* in two batches.
C3_Witness ==
    /\ idx.pc = "done"
    /\ ~idx.rebuild
    /\ idx.batch_size = 1
    /\ Len(idx.batches) = 2
    /\ idx.ret = 2

\* C4 as stated: after any index_conversations run that returns normally
\* every conversation id of the relational store has an entry of that id
\* in the collection, and after a rebuild the two id sets are equal.
C4_Original ==
    idx.pc = "done" /\ ~idx.raised
        => /\ StoreIds \subseteq IndexedIds(collection)
           /\ idx.rebuild => IndexedIds(collection) = StoreIds

(***************************************************************************)
(* Script invocations and their database connections                       *)
(*   conversation-processor.py, rag_indexer.py, search-conversations.py    *)
(***************************************************************************)
Scripts == {"processor", "indexer", "search"}

\* The command-line options that steer main()
Options(script) ==
    CASE script = "processor" -> {"--reindex", "--stats"}
      [] script = "indexer" -> {"--rebuild", "--stats", "--test-search"}
      [] script = "search" -> {"query", "--file", "--tool", "--keyword"}

\* The sqlite3.connect calls of the script's constructor, in order
ConnectionsOf(script) ==
    CASE script = "processor" -> << "processor.conn" >>
      [] script = "indexer" -> << "indexer.conn" >>
      [] script = "search" -> << "indexer.conn", "searcher.conn" >>

\* How many connections are open when the constructor raises: the
\* processor's mkdir or connect fails (0) or its executescript fails (1);
\* RAGIndexer fails while loading the model or the vector store or in its
\* connect, its last statement that can fail (0); ConversationSearch fails
\* in RAGIndexer (0) or in its own connect (1).
ConstructorStops(script) ==
    CASE script = "processor" -> {0, 1}
      [] script = "indexer" -> {0}
      [] script = "search" -> {0, 1}

\* rag_indexer.py and search-conversations.py leave with exit(1) when the
\* database file does not exist; the processor creates it.
RequiresDatabase(script) == script \in {"indexer", "search"}

\* What the try block of main() can do.  The search CLI reaches exit(1)
\* when neither --tool, --file nor a query is given.
BodyOutcomes(script, args) ==
    IF script = "search" /\ args \cap {"--tool", "--file", "query"} = {}
      THEN {"exit"}
      ELSE {"return", "raise"}

\* ConversationProcessor.close
ProcessorClose(open) == open \ {"processor.conn"}

\* RAGIndexer.close
IndexerClose(open) == open \ {"indexer.conn"}

\* A close that leaves the indexer's connection alone
SearcherCloseOwn(open) == open \ {"searcher.conn"}

\* ConversationSearch.close
SearcherClose(open) == IndexerClose(open) \ {"searcher.conn"}

\* The close() of the finally block
Close(script, open) ==
    CASE script = "processor" -> ProcessorClose(open)
      [] script = "indexer" -> IndexerClose(open)
      [] script = "search" -> SearcherClose(open)

OtherVars == <<procVars, idxVars, srch, pre, mkt, skl, aud>>

\* The script is started.
Invoke(script, args) ==
    /\ cli.pc = "idle"
    /\ cli' = [CliIdle EXCEPT !.pc = "main", !.script = script, !.args = args]
    /\ UNCHANGED OtherVars

\* main() up to the constructor call
EnterMain(db_exists) ==
    /\ cli.pc = "main"
    /\ IF RequiresDatabase(cli.script) /\ ~db_exists
         THEN cli' = [cli EXCEPT !.pc = "ended", !.how = "exit", !.exit_code = 1]
         ELSE cli' = [cli EXCEPT !.pc = "construct"]
    /\ UNCHANGED OtherVars

\* The constructor: it completes with every connection open, or raises
\* with the first n open, and the exception leaves main() before its try.
Construct(completed, n) ==
    /\ cli.pc = "construct"
    /\ LET conns == ConnectionsOf(cli.script)
       IN  IF completed
             THEN /\ n = Len(conns)
                  /\ cli' = [cli EXCEPT !.pc = "try", !.constructed = TRUE,
                                        !.open = {conns[i] : i \in 1..n},
                                        !.opened = n]
             ELSE /\ n \in ConstructorStops(cli.script)
                  /\ cli' = [cli EXCEPT !.pc = "ended", !.how = "raise",
                                        !.exit_code = 1,
                                        !.open = {conns[i] : i \in 1..n},
                                        !.opened = n]
    /\ UNCHANGED OtherVars

\* The try block runs to its end, calls exit(1) or raises.
Body(outcome) ==
    /\ cli.pc = "try"
    /\ outcome \in BodyOutcomes(cli.script, cli.args)
    /\ cli' = [cli EXCEPT !.pc = "finally", !.how = outcome]
    /\ UNCHANGED OtherVars

\* finally: close(), then the invocation ends.
Finally ==
    /\ cli.pc = "finally"
    /\ cli' = [cli EXCEPT !.pc = "ended",
                          !.open = Close(cli.script, cli.open),
                          !.exit_code = IF cli.how = "return" THEN 0 ELSE 1]
    /\ UNCHANGED OtherVars

\* The process is gone.
Terminate ==
    /\ cli.pc = "ended"
    /\ cli' = CliIdle
    /\ UNCHANGED OtherVars

\* The stores play no part in the connection life cycle.
InitConn ==
    /\ fs = [p \in ProjectFiles |-> [readable |-> TRUE, lines |-> << >>, mtime |-> 1]]
    /\ conn = [view |-> EmptyDB, durable |-> EmptyDB]
    /\ run = Idle
    /\ last = NoCall
    /\ collection = {}
    /\ idx = IdxIdle
    /\ ToolsIdle

NextConn ==
    \/ \E script \in Scripts : \E args \in SUBSET Options(script) : Invoke(script, args)
    \/ \E db_exists \in BOOLEAN : EnterMain(db_exists)
    \/ \E completed \in BOOLEAN, n \in 0..2 : Construct(completed, n)
    \/ \E outcome \in {"return", "exit", "raise"} : Body(outcome)
    \/ Finally
    \/ Terminate

SpecConn == InitConn /\ [][NextConn]_vars

(***************************************************************************)
(* Properties of the connection life cycle                                 *)
(***************************************************************************)
\* C6 as stated: every invocation that opened a connection to the
\* relational store opened exactly one and has closed it when it ends.
C6_Original ==
    (cli.pc = "ended" /\ cli.opened > 0) => (cli.opened = 1 /\ cli.open = {})

\* C6: an invocation whose constructor completed holds every connection it
\* opened all through its try block and has closed every one of them when
\* it ends, however the try block was left (return, exit(1), exception);
\* the processor and the indexer opened one connection, the search CLI two.
\* An invocation whose constructor raised closed nothing: what it had
\* opened (at most one connection) is still open when it ends.
C6_Theorem ==
    /\ (cli.pc \in {"try", "finally", "ended"} /\ cli.constructed)
         => cli.opened = (IF cli.script = "search" THEN 2 ELSE 1)
    /\ (cli.pc \in {"try", "finally"})
         => (cli.constructed /\ Cardinality(cli.open) = cli.opened)
    /\ (cli.pc = "ended" /\ cli.constructed)
         => (cli.open = {} /\ cli.how \in {"return", "exit", "raise"})
    /\ (cli.pc = "ended" /\ ~cli.constructed)
         => (cli.opened <= 1 /\ Cardinality(cli.open) = cli.opened)

\* The search CLI left its try block by exit(1) with both connections closed.
C6_Witness ==
    /\ cli.pc = "ended"
    /\ cli.script = "search"
    /\ cli.constructed
    /\ cli.how = "exit"
    /\ cli.opened = 2
    /\ cli.open = {}

(***************************************************************************)
(* PreReleaseValidator (validate-pre-release.py)                           *)
(***************************************************************************)
\* The automated checks of run(): ten, and three more without --quick
QuickChecks == 10
FullChecks == 13

NumChecks(quick) == IF quick THEN QuickChecks ELSE FullChecks

\* What calling one check function does: it returns (True, message),
\* returns (False, message), or raises.
CheckOutcomes == {"pass", "fail", "raise"}

\* What subprocess.run of one validation script does: the script exits 0,
\* exits with another code, does not finish within the 60 s timeout
\* (TimeoutExpired), or cannot be run (another exception).
ScriptOutcomes == {"exit0", "exit1", "timeout", "error"}

\* The two validation scripts, in order
ValidationScripts == << "validate-marketplace.py", "validate-skills.py skills/" >>

\* _run_validation_scripts: all_passed becomes False on a non-zero return
\* code and on an exception other than TimeoutExpired.
RunValidationScripts(outcomes) ==
    \A i \in 1..Len(outcomes) : outcomes[i] \notin {"exit1", "error"}

PreOtherVars == <<procVars, idxVars, cli, srch, mkt, skl, aud>>

\* main -> run() up to the loop over the checks.  _load_marketplace
\* returns False on any exception of open or json.load.
StartPreRelease(quick, load_ok) ==
    /\ pre.pc = "idle"
    /\ IF load_ok
         THEN pre' = [PreIdle EXCEPT !.pc = "checks", !.quick = quick, !.loaded = TRUE]
         ELSE pre' = [PreIdle EXCEPT !.pc = "done", !.quick = quick,
                                     !.ret = "False", !.exit_code = 1]
    /\ UNCHANGED PreOtherVars

\* One iteration of "for name, check_func in checks"
RunCheck(outcome) ==
    /\ pre.pc = "checks"
    /\ Len(pre.results) < NumChecks(pre.quick)
    /\ pre' = [pre EXCEPT !.results = Append(@, outcome = "pass"),
                          !.outcome = outcome,
                          !.all_passed = IF outcome = "pass" THEN @ ELSE FALSE]
    /\ UNCHANGED PreOtherVars

\* The rest of run(): the validation scripts, the summary, the return
\* value, and main's sys.exit.
FinishPreRelease(outcomes) ==
    /\ pre.pc = "checks"
    /\ Len(pre.results) = NumChecks(pre.quick)
    /\ Len(outcomes) = Len(ValidationScripts)
    /\ LET all_passed == pre.all_passed /\ RunValidationScripts(outcomes)
       IN  pre' = [pre EXCEPT !.pc = "done", !.outcome = "none",
                              !.scripts = outcomes,
                              !.all_passed = all_passed,
                              !.ret = IF all_passed THEN "True" ELSE "False",
                              !.exit_code = IF all_passed THEN 0 ELSE 1]
    /\ UNCHANGED PreOtherVars

ExitPreRelease ==
    /\ pre.pc = "done"
    /\ pre' = PreIdle
    /\ UNCHANGED PreOtherVars

NextPre ==
    \/ \E quick \in BOOLEAN, load_ok \in BOOLEAN : StartPreRelease(quick, load_ok)
    \/ \E outcome \in CheckOutcomes : RunCheck(outcome)
    \/ \E outcomes \in [1..2 -> ScriptOutcomes] : FinishPreRelease(outcomes)
    \/ ExitPreRelease

SpecPre == InitConn /\ [][NextPre]_vars

(***************************************************************************)
(* Properties of PreReleaseValidator.run                                   *)
(***************************************************************************)
\* C7 as stated: run returns True, and the process exits 0, exactly when
\* marketplace.json loaded, every check of the selected mode (10 quick, 13
\* full) returned passed without raising, and every validation script ran
\* to completion with exit code 0; a check that raises is recorded as
\* failed, and all the checks of the mode have run when run returns.
C7_Original ==
    /\ (pre.pc = "checks" /\ pre.outcome = "raise")
         => pre.results[Len(pre.results)] = FALSE
    /\ (pre.pc = "done" /\ pre.loaded)
         => Len(pre.results) = NumChecks(pre.quick)
    /\ pre.pc = "done"
         => /\ (pre.ret = "True") <=> (pre.exit_code = 0)
            /\ (pre.ret = "True") <=>
                 /\ pre.loaded
                 /\ \A i \in 1..Len(pre.results) : pre.results[i]
                 /\ Len(pre.scripts) = Len(ValidationScripts)
                 /\ \A i \in 1..Len(pre.scripts) : pre.scripts[i] = "exit0"

(***************************************************************************)
(* MarketplaceValidator (validate-marketplace.py)                          *)
(***************************************************************************)
\* Longest plugins array with more than one entry
MaxPlugins == 2

\* marketplace['owner']: absent, not an object, or an object with or
\* without its name and email
Owner(kind, name, email) == [kind |-> kind, name |-> name, email |-> email]
Owners ==
    {Owner("absent", FALSE, FALSE), Owner("nonobject", FALSE, FALSE)}
    \cup {Owner("object", n, e) : n \in BOOLEAN, e \in BOOLEAN}

\* marketplace['metadata']; version is absent, a semantic version, another
\* string, or a JSON number
Metadata(kind, description, version) ==
    [kind |-> kind, description |-> description, version |-> version]
Metadatas ==
    {Metadata("absent", FALSE, "absent"), Metadata("nonobject", FALSE, "absent")}
    \cup {Metadata("object", d, v) :
            d \in BOOLEAN, v \in {"absent", "semver", "other", "number"}}

\* One element of a skills array: not a string, or the path name with or
\* without its "./" prefix, together with what the path resolves to in the
\* repository: nothing ("missing"), a file, a directory without SKILL.md
\* ("nomd"), or a directory whose SKILL.md cannot be read, is empty, is
\* shorter than 100 characters or is longer ("ok"); and whether that
\* directory holds a plugin.json.
SkillRef(kind, name, dotslash, dir, plugin_json) ==
    [kind |-> kind, name |-> name, dotslash |-> dotslash, dir |-> dir,
     plugin_json |-> plugin_json]
DirStates == {"missing", "file", "nomd", "unreadable", "empty", "short", "ok"}
SkillRefs ==
    {SkillRef("nonstring", "", FALSE, "missing", FALSE)}
    \cup {SkillRef("string", "skills/s1", ds, dir, pj) :
            ds \in BOOLEAN, dir \in DirStates, pj \in BOOLEAN}
GoodSkill == SkillRef("string", "skills/s1", TRUE, "ok", FALSE)

\* One element of the plugins array: not an object, or an object.  name is
\* "absent" or the name; source "absent", "nonstring" or the string;
\* strict "absent", "bool" or "other"; skills_kind "absent", "nonarray" or
\* "array".
Plugin(kind, name, description, source, strict, skills_kind, skills) ==
    [kind |-> kind, name |-> name, description |-> description, source |-> source,
     strict |-> strict, skills_kind |-> skills_kind, skills |-> skills]
Sources == {"absent", "nonstring", "./", ".", "", "./plugins/x", "plugins/x"}
NonObjectPlugin == Plugin("nonobject", "absent", FALSE, "absent", "absent", "absent", << >>)
GoodPlugin == Plugin("object", "p1", TRUE, "./plugins/x", "bool", "array", << GoodSkill >>)

\* Every shape of a single plugin entry
SinglePlugins ==
    {NonObjectPlugin}
    \cup {Plugin("object", n, d, src, st, "array", sk) :
            n \in {"absent", "p1"}, d \in BOOLEAN, src \in Sources,
            st \in {"absent", "bool", "other"},
            sk \in {<< >>} \cup {<< s >> : s \in SkillRefs}}
    \cup {Plugin("object", n, d, src, st, sk, << >>) :
            n \in {"absent", "p1"}, d \in BOOLEAN, src \in Sources,
            st \in {"absent", "bool", "other"}, sk \in {"absent", "nonarray"}}

\* The entries of the longer plugins arrays
ListPlugins ==
    {Plugin("object", n, TRUE, src, "bool", "array", sk) :
        n \in {"p1", "p2"}, src \in {"./", "./plugins/x"},
        sk \in {<< >>, << GoodSkill >>}}

PluginLists ==
    UNION {[1..n -> ListPlugins] : n \in 2..MaxPlugins}

\* .claude-plugin/marketplace.json.  file: "missing", "unreadable" (open
\* raises), "invalid" (json.load raises JSONDecodeError) or "parsed".
\* top: the JSON value is an "object", an "array" or a "number".
\* plugins_kind: "absent", "array", or a value that is not a list, a
\* "number" or an (empty) "object".
Marketplace(file, top, name, owner, metadata, plugins_kind, plugins) ==
    [file |-> file, top |-> top, name |-> name, owner |-> owner,
     metadata |-> metadata, plugins_kind |-> plugins_kind, plugins |-> plugins]
GoodOwner == Owner("object", TRUE, TRUE)
GoodMetadata == Metadata("object", TRUE, "semver")
NoObject(file, top) ==
    Marketplace(file, top, FALSE, Owner("absent", FALSE, FALSE),
                Metadata("absent", FALSE, "absent"), "absent", << >>)

Marketplaces ==
    {NoObject("missing", "object"), NoObject("unreadable", "object"),
     NoObject("invalid", "object"), NoObject("parsed", "array"),
     NoObject("parsed", "number")}
    \cup {Marketplace("parsed", "object", n, o, m, pk, << >>) :
            n \in BOOLEAN, o \in Owners, m \in Metadatas,
            pk \in {"absent", "number", "object", "array"}}
    \cup {Marketplace("parsed", "object", n, o, m, "array", << GoodPlugin >>) :
            n \in BOOLEAN, o \in Owners, m \in Metadatas}
    \cup {Marketplace("parsed", "object", TRUE, GoodOwner, GoodMetadata, "array", << p >>) :
            p \in SinglePlugins}
    \cup {Marketplace("parsed", "object", TRUE, GoodOwner, GoodMetadata, "array", ps) :
            ps \in PluginLists}

\* field in self.marketplace
HasField(m, field) ==
    /\ m.top = "object"
    /\ CASE field = "name" -> m.name
         [] field = "owner" -> m.owner.kind # "absent"
         [] field = "metadata" -> m.metadata.kind # "absent"
         [] field = "plugins" -> m.plugins_kind # "absent"

\* field in plugin
PluginHas(p, field) ==
    CASE field = "name" -> p.name # "absent"
      [] field = "description" -> p.description
      [] field = "source" -> p.source # "absent"
      [] field = "strict" -> p.strict # "absent"
      [] field = "skills" -> p.skills_kind # "absent"

\* What a check leaves: the messages it appended, and whether it raised
Outcome(errors, warnings, raised) ==
    [errors |-> errors, warnings |-> warnings, raised |-> raised]
Nothing == Outcome(<< >>, << >>, FALSE)

\* The next check runs unless an earlier one raised.
Then(first, second) ==
    IF first.raised THEN first
    ELSE Outcome(first.errors \o second.errors, first.warnings \o second.warnings,
                 second.raised)

If(cond, message) == IF cond THEN << message >> ELSE << >>

RECURSIVE SelectFields(_, _, _)
SelectFields(m, fields, missing) ==
    IF fields = << >> THEN missing
    ELSE SelectFields(m, Tail(fields),
                      IF HasField(m, Head(fields)) THEN missing
                      ELSE Append(missing, <<"missing-field", Head(fields)>>))

\* _validate_marketplace_structure; "field not in" raises TypeError on a
\* JSON number.
ValidateMarketplaceStructure(m) ==
    IF m.top = "number" THEN Outcome(<< >>, << >>, TRUE)
    ELSE Outcome(SelectFields(m, <<"name", "owner", "metadata", "plugins">>, << >>),
                 << >>, FALSE)

\* _validate_owner
ValidateOwner(m) ==
    IF ~HasField(m, "owner") THEN Nothing
    ELSE IF m.owner.kind # "object"
      THEN Outcome(<< <<"owner-not-object">> >>, << >>, FALSE)
    ELSE Outcome(If(~m.owner.name, <<"owner-name-required">>),
                 If(~m.owner.email, <<"owner-email-recommended">>), FALSE)

\* _is_valid_semver; re.match raises TypeError on a value that is not a
\* string.
IsValidSemver(version) == version = "semver"

\* _validate_metadata
ValidateMetadata(m) ==
    IF ~HasField(m, "metadata")
      THEN Outcome(<< >>, << <<"metadata-recommended">> >>, FALSE)
    ELSE IF m.metadata.kind # "object"
      THEN Outcome(<< <<"metadata-not-object">> >>, << >>, FALSE)
    ELSE LET w1 == If(~m.metadata.description, <<"metadata-description-recommended">>)
         IN  IF m.metadata.version = "absent"
               THEN Outcome(<< >>, w1 \o << <<"metadata-version-recommended">> >>, FALSE)
             ELSE IF m.metadata.version = "number"
               THEN Outcome(<< >>, w1, TRUE)
             ELSE Outcome(<< >>,
                          w1 \o If(~IsValidSemver(m.metadata.version), <<"not-semver">>),
                          FALSE)

\* plugin.get('name', f'Plugin #{idx}')
PluginLabel(p) == IF p.name # "absent" THEN p.name ELSE "Plugin #"

RECURSIVE MissingPluginFields(_, _)
MissingPluginFields(p, fields) ==
    IF fields = << >> THEN << >>
    ELSE If(~PluginHas(p, Head(fields)),
            <<"plugin-missing-field", PluginLabel(p), Head(fields)>>)
         \o MissingPluginFields(p, Tail(fields))

StartsWithDotSlash(source) == source \in {"./", "./plugins/x"}

\* _validate_plugin_entry; plugin.get raises AttributeError on an entry
\* that is not an object.
ValidatePluginEntry(p, plugin_names) ==
    IF p.kind # "object" THEN Outcome(<< >>, << >>, TRUE)
    ELSE Outcome(
           MissingPluginFields(p, <<"name", "description", "source", "strict", "skills">>)
           \o If(p.name # "absent" /\ p.name \in plugin_names,
                 <<"duplicate-plugin-name", p.name>>)
           \o If(p.source = "nonstring", <<"source-not-string", PluginLabel(p)>>)
           \o If(p.strict = "other", <<"strict-not-boolean", PluginLabel(p)>>)
           \o If(p.skills_kind = "nonarray", <<"skills-not-array", PluginLabel(p)>>),
           If(p.source \notin {"absent", "nonstring"} /\ ~StartsWithDotSlash(p.source),
              <<"source-without-dot-slash", PluginLabel(p)>>)
           \o If(p.skills_kind = "array" /\ Len(p.skills) = 0,
                 <<"empty-skills", PluginLabel(p)>>),
           FALSE)

RECURSIVE ValidatePluginEntries(_, _)
ValidatePluginEntries(plugins, plugin_names) ==
    IF plugins = << >> THEN Nothing
    ELSE LET p == Head(plugins)
         IN  Then(ValidatePluginEntry(p, plugin_names),
                  ValidatePluginEntries(
                      Tail(plugins),
                      IF p.name # "absent" THEN plugin_names \cup {p.name}
                      ELSE plugin_names))

\* _validate_plugins
ValidatePlugins(m) ==
    IF ~HasField(m, "plugins") THEN Nothing
    ELSE IF m.plugins_kind # "array"
      THEN Outcome(<< <<"plugins-not-array">> >>, << >>, FALSE)
    ELSE IF Len(m.plugins) = 0
      THEN Outcome(<< >>, << <<"no-plugins">> >>, FALSE)
    ELSE ValidatePluginEntries(m.plugins, {})

\* A variant of the first list that does not skip the plugins without a
\* name.
RootSourceWithSkillsUnnamed(plugins) ==
    {i \in 1..Len(plugins) :
        /\ plugins[i].source # "absent"
        /\ plugins[i].source \in {"./", ".", ""}
        /\ plugins[i].skills_kind = "array" /\ Len(plugins[i].skills) > 0}

\* _validate_source_isolation: the plugins with a name and a source whose
\* source is the repository root, with skills and without
RootSourceWithSkills(plugins) ==
    {i \in 1..Len(plugins) :
        /\ plugins[i].name # "absent" /\ plugins[i].source # "absent"
        /\ plugins[i].source \in {"./", ".", ""}
        /\ plugins[i].skills_kind = "array" /\ Len(plugins[i].skills) > 0}

RootSourceHooksOnly(plugins) ==
    {i \in 1..Len(plugins) :
        /\ plugins[i].name # "absent" /\ plugins[i].source # "absent"
        /\ plugins[i].source \in {"./", ".", ""}
        /\ ~(plugins[i].skills_kind = "array" /\ Len(plugins[i].skills) > 0)}

\* Each message carries the names of its plugins, in the order of the
\* array.
ValidateSourceIsolation(m) ==
    LET Names(S) ==
            LET In(i) == i \in S
                at == SelectSeq([i \in 1..Len(m.plugins) |-> i], In)
            IN  [k \in 1..Len(at) |-> m.plugins[at[k]].name]
    IN  IF ~HasField(m, "plugins") \/ m.plugins_kind # "array" THEN Nothing
        ELSE Outcome(If(RootSourceWithSkills(m.plugins) # {},
                        <<"cache-duplication-risk", Names(RootSourceWithSkills(m.plugins))>>),
                     If(RootSourceHooksOnly(m.plugins) # {},
                        <<"root-source-hooks-only", Names(RootSourceHooksOnly(m.plugins))>>),
                     FALSE)

\* The skill path as written in marketplace.json
SkillPath(ref) == <<IF ref.dotslash THEN "./" ELSE "", ref.name>>

RECURSIVE SkillReferences(_, _, _)
SkillReferences(label, skills, all_skill_paths) ==
    IF skills = << >> THEN [out |-> Nothing, paths |-> all_skill_paths]
    ELSE LET ref == Head(skills)
             rest == SkillReferences(
                        label, Tail(skills),
                        IF ref.kind = "string"
                          THEN all_skill_paths \cup {SkillPath(ref)}
                          ELSE all_skill_paths)
             here == IF ref.kind # "string"
                       THEN Outcome(<< <<"skill-path-not-string", label>> >>, << >>, FALSE)
                     ELSE Outcome(<< >>,
                            If(~ref.dotslash, <<"skill-path-without-dot-slash", label>>)
                            \o If(SkillPath(ref) \in all_skill_paths,
                                  <<"skill-in-multiple-plugins">>),
                            FALSE)
         IN  [out |-> Then(here, rest.out), paths |-> rest.paths]

RECURSIVE PluginSkillReferences(_, _)
PluginSkillReferences(plugins, all_skill_paths) ==
    IF plugins = << >> THEN Nothing
    ELSE LET p == Head(plugins)
         IN  IF p.name = "absent" \/ p.skills_kind # "array"
               THEN PluginSkillReferences(Tail(plugins), all_skill_paths)
             ELSE LET r == SkillReferences(p.name, p.skills, all_skill_paths)
                  IN  Then(r.out, PluginSkillReferences(Tail(plugins), r.paths))

\* _validate_skill_references; iterating a JSON number raises TypeError,
\* iterating the empty object does nothing.
ValidateSkillReferences(m) ==
    IF ~HasField(m, "plugins") THEN Nothing
    ELSE IF m.plugins_kind = "number" THEN Outcome(<< >>, << >>, TRUE)
    ELSE IF m.plugins_kind = "object" THEN Nothing
    ELSE PluginSkillReferences(m.plugins, {})

\* The body of the loop over the skill paths in _validate_skill_files
SkillFile(label, ref) ==
    IF ref.kind # "string" THEN Nothing
    ELSE IF ref.dir = "missing"
      THEN Outcome(<< <<"skill-directory-not-found", label>> >>, << >>, FALSE)
    ELSE IF ref.dir = "file"
      THEN Outcome(<< <<"skill-path-not-directory", label>> >>, << >>, FALSE)
    ELSE IF ref.dir = "nomd"
      THEN Outcome(<< <<"missing-skill-md", label>> >>, << >>, FALSE)
    ELSE Outcome(If(ref.dir = "unreadable", <<"skill-md-unreadable", label>>)
                 \o If(ref.dir = "empty", <<"skill-md-empty", label>>),
                 If(ref.dir = "short", <<"skill-md-short", label>>)
                 \o If(ref.plugin_json, <<"contains-plugin-json">>),
                 FALSE)

RECURSIVE SkillFiles(_, _)
SkillFiles(label, skills) ==
    IF skills = << >> THEN Nothing
    ELSE Then(SkillFile(label, Head(skills)), SkillFiles(label, Tail(skills)))

RECURSIVE PluginSkillFiles(_)
PluginSkillFiles(plugins) ==
    IF plugins = << >> THEN Nothing
    ELSE LET p == Head(plugins)
         IN  IF p.name = "absent" \/ p.skills_kind # "array"
               THEN PluginSkillFiles(Tail(plugins))
             ELSE Then(SkillFiles(p.name, p.skills), PluginSkillFiles(Tail(plugins)))

\* _validate_skill_files
ValidateSkillFiles(m) ==
    IF ~HasField(m, "plugins") THEN Nothing
    ELSE IF m.plugins_kind = "number" THEN Outcome(<< >>, << >>, TRUE)
    ELSE IF m.plugins_kind = "object" THEN Nothing
    ELSE PluginSkillFiles(m.plugins)

\* A return value that counts warnings as failures
NoErrorsNoWarnings(errors, warnings) == Len(errors) = 0 /\ Len(warnings) = 0

\* return len(self.errors) == 0
NoErrors(errors, warnings) == Len(errors) = 0

\* MarketplaceValidator.validate: the messages, whether all seven checks
\* ran (completed), and the return value ("raise": an exception left
\* validate)
Validate(m) ==
    LET Result(errors, warnings, completed, ret) ==
            [errors |-> errors, warnings |-> warnings, completed |-> completed,
             ret |-> ret]
        checks ==
            Then(ValidateMarketplaceStructure(m),
            Then(ValidateOwner(m),
            Then(ValidateMetadata(m),
            Then(ValidatePlugins(m),
            Then(ValidateSourceIsolation(m),
            Then(ValidateSkillReferences(m),
                 ValidateSkillFiles(m)))))))
    IN  IF m.file = "missing"
          THEN Result(<< <<"marketplace-not-found">> >>, << >>, FALSE, "False")
        ELSE IF m.file = "unreadable"
          THEN Result(<< >>, << >>, FALSE, "raise")
        ELSE IF m.file = "invalid"
          THEN Result(<< <<"invalid-json">> >>, << >>, FALSE, "False")
        ELSE IF checks.raised
          THEN Result(checks.errors, checks.warnings, FALSE, "raise")
        ELSE Result(checks.errors, checks.warnings, TRUE,
                    IF NoErrors(checks.errors, checks.warnings) THEN "True" ELSE "False")

MktOtherVars == <<procVars, idxVars, cli, srch, pre, skl, aud>>

\* validate-marketplace.py main: validate() and sys.exit; an uncaught
\* exception ends the process with status 1.
RunMarketplaceValidator(m) ==
    /\ mkt.pc = "idle"
    /\ LET r == Validate(m)
       IN  mkt' = [pc |-> "done", input |-> m, errors |-> r.errors,
                   warnings |-> r.warnings, completed |-> r.completed,
                   ret |-> r.ret,
                   exit_code |-> IF r.ret = "True" THEN 0 ELSE 1]
    /\ UNCHANGED MktOtherVars

ExitMarketplaceValidator ==
    /\ mkt.pc = "done"
    /\ mkt' = MktIdle
    /\ UNCHANGED MktOtherVars

NextMkt ==
    \/ \E m \in Marketplaces : RunMarketplaceValidator(m)
    \/ ExitMarketplaceValidator

SpecMkt == InitConn /\ [][NextMkt]_vars

(***************************************************************************)
(* Properties of MarketplaceValidator.validate                             *)
(***************************************************************************)
\* C8: validate returns True and the script exits 0 exactly when
\* marketplace.json exists, parses as JSON, all the checks have run and the
\* errors list is empty; the exit code is 0 or 1, and 0 only with the
\* return value True; warnings never make a run fail.
C8_Theorem ==
    mkt.pc = "done" =>
        /\ mkt.exit_code \in {0, 1}
        /\ (mkt.exit_code = 0) <=> (mkt.ret = "True")
        /\ (mkt.ret = "True") <=>
             /\ mkt.input.file \notin {"missing", "unreadable", "invalid"}
             /\ mkt.completed
             /\ mkt.errors = << >>
        /\ mkt.input.file \in {"missing", "invalid"} => mkt.errors # << >>

\* A marketplace with warnings and no errors passed.
C8_Witness ==
    /\ mkt.pc = "done"
    /\ mkt.ret = "True"
    /\ mkt.exit_code = 0
    /\ mkt.errors = << >>
    /\ Len(mkt.warnings) >= 2

\* C15 as stated: in a run that made all the checks, a plugin whose source
\* is './', '.' or '' is named in the cache-duplication error when its
\* skills array is non-empty and in the root-source warning, not in the
\* error, when it has no skills; a plugin with any other source is named
\* in neither.
C15_Original ==
    (mkt.pc = "done" /\ mkt.completed /\ mkt.input.plugins_kind = "array") =>
        LET plugins == mkt.input.plugins
            Listed(messages, kind, i) ==
                \E k \in 1..Len(messages) :
                    /\ messages[k][1] = kind
                    /\ \E j \in 1..Len(messages[k][2]) :
                          messages[k][2][j] = plugins[i].name
            Root(i) == plugins[i].source \in {"./", ".", ""}
            HasSkills(i) == plugins[i].skills_kind = "array" /\ Len(plugins[i].skills) > 0
            InError(i) == Listed(mkt.errors, "cache-duplication-risk", i)
            InWarning(i) == Listed(mkt.warnings, "root-source-hooks-only", i)
        IN  \A i \in 1..Len(plugins) :
                /\ (Root(i) /\ HasSkills(i)) => InError(i)
                /\ (Root(i) /\ ~HasSkills(i)) => (InWarning(i) /\ ~InError(i))
                /\ ~Root(i) => (~InError(i) /\ ~InWarning(i))

\* C15: in a run that made all the checks, the source-isolation check
\* leaves one error that names, in order, exactly the plugins that have a
\* name, a source './', '.' or '' and a non-empty skills array, one warning
\* that names exactly the other plugins with a name and such a source, and
\* no message for a list that is empty.
C15_Theorem ==
    (mkt.pc = "done" /\ mkt.completed /\ mkt.input.plugins_kind = "array") =>
        LET plugins == mkt.input.plugins
            Root(i) == plugins[i].name # "absent" /\ plugins[i].source \in {"./", ".", ""}
            HasSkills(i) == plugins[i].skills_kind = "array" /\ Len(plugins[i].skills) > 0
            WithSkills(i) == Root(i) /\ HasSkills(i)
            HooksOnly(i) == Root(i) /\ ~HasSkills(i)
            all == [i \in 1..Len(plugins) |-> i]
            NamesOf(at) == [k \in 1..Len(at) |-> plugins[at[k]].name]
            OfKind(messages, kind) ==
                LET Is(message) == message[1] = kind IN SelectSeq(messages, Is)
            Expected(kind, at) ==
                IF at = << >> THEN << >> ELSE << <<kind, NamesOf(at)>> >>
        IN  /\ OfKind(mkt.errors, "cache-duplication-risk")
                 = Expected("cache-duplication-risk", SelectSeq(all, WithSkills))
            /\ OfKind(mkt.warnings, "root-source-hooks-only")
                 = Expected("root-source-hooks-only", SelectSeq(all, HooksOnly))
            /\ OfKind(mkt.warnings, "cache-duplication-risk") = << >>
            /\ OfKind(mkt.errors, "root-source-hooks-only") = << >>

\* Two plugins with source './', the first with a skill and the second
\* with an empty skills array: one error for the first, one warning for
\* the second.
C15_Witness ==
    /\ mkt.pc = "done" /\ mkt.completed
    /\ Len(mkt.input.plugins) = 2
    /\ \E k \in 1..Len(mkt.errors) : mkt.errors[k] = <<"cache-duplication-risk", <<"p1">> >>
    /\ \E k \in 1..Len(mkt.warnings) : mkt.warnings[k] = <<"root-source-hooks-only", <<"p2">> >>

(***************************************************************************)
(* SkillValidator and SkillsValidator (validate-skills.py)                 *)
(***************************************************************************)
\* Largest number of whole tens of lines by which a SKILL.md exceeds
\* MAX_SKILL_MD_LINES
MaxOver == 6

\* Most skill directories found below a category directory
MaxSkills == 2

MAX_NAME_LENGTH == 64
MAX_DESCRIPTION_LENGTH == 1024
MAX_SKILL_MD_LINES == 200
MIN_DESCRIPTION_LENGTH == 50

\* WEIGHTS, in hundredths.  The category scores are integers, and for
\* integer scores the double-precision sum of score * weight is at least
\* 70 exactly when the sum in hundredths is at least 7000.
WEIGHTS ==
    [file_structure |-> 10, frontmatter |-> 15, spec_compliance |-> 15,
     description_quality |-> 20, progressive_disclosure |-> 20,
     main_instructions |-> 10, testing_invocation |-> 10]

Categories == DOMAIN WEIGHTS

PassThreshold == 7000

\* frontmatter['name']: absent, a list ("name: [a, b]" is parsed into a
\* list), or a string: whether it is kebab-case, its length, and whether it
\* equals the directory name
Name(kind, kebab, length, matches) ==
    [kind |-> kind, kebab |-> kebab, length |-> length, matches |-> matches]
Names ==
    {Name("absent", FALSE, 0, FALSE), Name("list", FALSE, 0, FALSE)}
    \cup {Name("string", k, l, m) :
            k \in BOOLEAN, l \in {MAX_NAME_LENGTH, MAX_NAME_LENGTH + 1},
            m \in BOOLEAN}
CleanName == Name("string", TRUE, MAX_NAME_LENGTH, TRUE)

\* frontmatter['description']: absent, a list, or a string: its length in
\* characters and words; whether it starts with "use proactively";
\* whether it contains "when" or "for"; whether it contains an action
\* verb; which boundary phrase it contains ("none", "not for", "cannot",
\* "limitations"); whether it contains "use case"
Description(kind, length, words, proactive, when_for, verbs, boundaries, use_case) ==
    [kind |-> kind, length |-> length, words |-> words, proactive |-> proactive,
     when_for |-> when_for, verbs |-> verbs, boundaries |-> boundaries,
     use_case |-> use_case]
Descriptions ==
    {Description("string", l, w, p, wf, v, b, u) :
        l \in {MIN_DESCRIPTION_LENGTH - 1, MIN_DESCRIPTION_LENGTH,
               MAX_DESCRIPTION_LENGTH, MAX_DESCRIPTION_LENGTH + 1},
        w \in {1, 150, 151}, p \in BOOLEAN, wf \in BOOLEAN, v \in BOOLEAN,
        b \in {"none", "not for", "cannot", "limitations"}, u \in BOOLEAN}
AbsentDescription == Description("absent", 0, 0, FALSE, FALSE, FALSE, "none", FALSE)
ListDescription == Description("list", 2, 0, FALSE, FALSE, FALSE, "none", FALSE)
CleanDescription ==
    Description("string", MIN_DESCRIPTION_LENGTH, 1, TRUE, TRUE, TRUE, "not for", FALSE)
WorstDescription ==
    Description("string", MIN_DESCRIPTION_LENGTH - 1, 1, FALSE, FALSE, FALSE, "none", FALSE)

\* A description that can be written: w words take at least 2w - 1
\* characters, and "not for" contains "for".
Writable(d) ==
    /\ 2 * d.words - 1 <= d.length
    /\ d.boundaries = "not for" => d.when_for

\* The text of SKILL.md: its number of lines; whether it refers to
\* workflow/, modes/, reference/ or examples/; whether it has an overview
\* heading, a markdown header, the word "trigger", an example; and whether
\* the text outside the description has a when-to-use phrase or mentions
\* limitations
Content(line_count, refs, overview, when_to_use, headers, limitation, triggers, examples) ==
    [line_count |-> line_count, refs |-> refs, overview |-> overview,
     when_to_use |-> when_to_use, headers |-> headers, limitation |-> limitation,
     triggers |-> triggers, examples |-> examples]
LineCounts ==
    {150, 151, MAX_SKILL_MD_LINES, MAX_SKILL_MD_LINES + 1, MAX_SKILL_MD_LINES + 9}
    \cup {MAX_SKILL_MD_LINES + 10 * k : k \in 1..MaxOver}
Contents ==
    {Content(lc, r, o, w, h, l, t, e) :
        lc \in LineCounts, r \in BOOLEAN, o \in BOOLEAN, w \in BOOLEAN,
        h \in BOOLEAN, l \in BOOLEAN, t \in BOOLEAN, e \in BOOLEAN}
CleanContent == Content(150, TRUE, TRUE, TRUE, TRUE, TRUE, TRUE, TRUE)
WorstContent ==
    Content(MAX_SKILL_MD_LINES + 10 * MaxOver, FALSE, FALSE, FALSE, FALSE, FALSE, FALSE, FALSE)

\* A skill directory.  skill_md: SKILL.md is "missing", "unreadable",
\* lacks the opening --- ("no_open") or the closing one ("no_close"), or
\* is "ok".
Skill(skill_md, readme, changelog, plugin_json, name, description, version, body) ==
    [skill_md |-> skill_md, readme |-> readme, changelog |-> changelog,
     plugin_json |-> plugin_json, name |-> name, description |-> description,
     version |-> version, body |-> body]
CleanSkill ==
    Skill("ok", TRUE, TRUE, FALSE, CleanName, CleanDescription, TRUE, CleanContent)
\* Without errors, but with a low score
LowSkill ==
    Skill("ok", TRUE, TRUE, TRUE, CleanName, WorstDescription, FALSE, WorstContent)
\* With an error, and a high score
ErrorSkill ==
    Skill("ok", FALSE, TRUE, FALSE, CleanName, CleanDescription, TRUE, CleanContent)

\* The skill directories _find_skills_recursive can return (they hold a
\* SKILL.md)
SkillInputs ==
    {Skill(md, TRUE, TRUE, FALSE, CleanName, CleanDescription, TRUE, CleanContent) :
        md \in {"unreadable", "no_open", "no_close"}}
    \cup {Skill("ok", r, c, pj, n, d, v, b) :
            r \in BOOLEAN, c \in BOOLEAN, pj \in BOOLEAN, n \in Names,
            d \in {AbsentDescription, ListDescription, CleanDescription,
                   WorstDescription},
            v \in BOOLEAN, b \in {CleanContent, WorstContent}}
    \cup {Skill("ok", TRUE, TRUE, FALSE, CleanName, d, TRUE, b) :
            d \in {x \in Descriptions : Writable(x)}, b \in {CleanContent, WorstContent}}
    \cup {Skill("ok", TRUE, TRUE, FALSE, CleanName, d, TRUE, b) :
            d \in {CleanDescription, WorstDescription}, b \in Contents}

SkillLists ==
    UNION {[1..n -> {CleanSkill, LowSkill, ErrorSkill}] : n \in 0..MaxSkills}

\* self.frontmatter after _parse_frontmatter: empty when the frontmatter
\* is not delimited
FrontName(s) == IF s.skill_md = "ok" THEN s.name ELSE Name("absent", FALSE, 0, FALSE)
FrontDescription(s) == IF s.skill_md = "ok" THEN s.description ELSE AbsentDescription
FrontVersion(s) == s.skill_md = "ok" /\ s.version

Max0(score) == IF score < 0 THEN 0 ELSE score
Min(a, b) == IF a < b THEN a ELSE b

\* A category's result: its score, the errors it appended, whether it raised
Scored(score, errors, raised) == [score |-> score, errors |-> errors, raised |-> raised]

\* _validate_file_structure
ValidateFileStructure(s) ==
    Scored(Max0(100 - (IF s.skill_md = "missing" THEN 20 ELSE 0)
                    - (IF s.readme THEN 0 ELSE 20)
                    - (IF s.changelog THEN 0 ELSE 20)
                    - (IF s.plugin_json THEN 5 ELSE 0)),
           If(s.skill_md = "missing", <<"missing-file", "SKILL.md">>)
           \o If(~s.readme, <<"missing-file", "README.md">>)
           \o If(~s.changelog, <<"missing-file", "CHANGELOG.md">>),
           FALSE)

\* _validate_frontmatter; re.match raises TypeError on a list
ValidateFrontmatter(s) ==
    LET name == FrontName(s)
        desc == FrontDescription(s)
    IN  IF name.kind = "list" THEN Scored(0, << >>, TRUE)
        ELSE Scored(Max0(100 - (IF name.kind = "absent" THEN 30
                                ELSE IF ~name.kebab THEN 10 ELSE 0)
                             - (IF desc.kind = "absent" THEN 30 ELSE 0)),
                    If(name.kind = "absent", <<"frontmatter-missing", "name">>)
                    \o If(desc.kind = "absent", <<"frontmatter-missing", "description">>),
                    FALSE)

\* _validate_spec_compliance; desc.split raises AttributeError on a list.
\* _check_referenced_files and _check_script_permissions append warnings
\* only.
ValidateSpecCompliance(s) ==
    LET name == FrontName(s)
        desc == FrontDescription(s)
        nameErrors ==
            IF name.kind = "absent" THEN << >>
            ELSE If(name.length > MAX_NAME_LENGTH, <<"name-exceeds-limit">>)
                 \o If(~name.matches, <<"name-directory-mismatch">>)
        namePenalty ==
            IF name.kind = "absent" THEN 0
            ELSE (IF name.length > MAX_NAME_LENGTH THEN 30 ELSE 0)
                 + (IF ~name.matches THEN 25 ELSE 0)
        descErrors ==
            IF desc.kind = "absent" THEN << >>
            ELSE If(desc.length > MAX_DESCRIPTION_LENGTH, <<"description-exceeds-limit">>)
        descPenalty ==
            IF desc.kind = "absent" THEN 0
            ELSE (IF desc.length > MAX_DESCRIPTION_LENGTH THEN 20 ELSE 0)
                 + (IF desc.words > 150 THEN 5 ELSE 0)
    IN  IF desc.kind = "list" THEN Scored(0, nameErrors, TRUE)
        ELSE Scored(Max0(100 - namePenalty - descPenalty
                             - (IF FrontVersion(s) THEN 0 ELSE 10)),
                    nameErrors \o descErrors, FALSE)

\* _validate_description_quality
ValidateDescriptionQuality(s) ==
    LET d == FrontDescription(s)
    IN  IF d.kind = "absent" THEN Scored(0, << >>, FALSE)
        ELSE Scored(Max0(100
                - (IF d.length < MIN_DESCRIPTION_LENGTH THEN 15
                   ELSE IF d.length > MAX_DESCRIPTION_LENGTH THEN 10 ELSE 0)
                - (IF d.proactive \/ d.when_for THEN 0 ELSE 10)
                - (IF d.verbs THEN 0 ELSE 15)
                - (IF d.boundaries # "none" THEN 0 ELSE 10)
                - (IF d.when_for \/ d.use_case THEN 0 ELSE 10)),
             << >>, FALSE)

\* _validate_progressive_disclosure
ValidateProgressiveDisclosure(s) ==
    LET line_count == s.body.line_count
        over_by == line_count - MAX_SKILL_MD_LINES
        penalty == IF line_count > MAX_SKILL_MD_LINES
                     THEN Min(30, (over_by \div 10) * 5) ELSE 0
    IN  Scored(Max0(100 - penalty
                        - (IF ~s.body.refs /\ line_count > 150 THEN 20 ELSE 0)),
               << >>, FALSE)

\* _validate_main_instructions: the content searched includes the
\* frontmatter, so the phrases of the description count
ValidateMainInstructions(s) ==
    LET when_to_use == s.body.when_to_use \/ s.description.use_case
        limitation == s.body.limitation
                        \/ s.description.boundaries \in {"not for", "limitations"}
    IN  Scored(Max0(100 - (IF s.body.overview THEN 0 ELSE 15)
                        - (IF when_to_use THEN 0 ELSE 15)
                        - (IF s.body.headers THEN 0 ELSE 10)
                        - (IF limitation THEN 0 ELSE 10)),
               << >>, FALSE)

\* _validate_testing_invocation
ValidateTestingInvocation(s) ==
    Scored(Max0(100 - (IF s.body.triggers THEN 0 ELSE 30)
                    - (IF s.body.examples THEN 0 ELSE 20)),
           << >>, FALSE)

\* The category validators in the order validate() calls them
CategoryOrder ==
    << "file_structure", "frontmatter", "spec_compliance", "description_quality",
       "progressive_disclosure", "main_instructions", "testing_invocation" >>

ValidateCategory(s, category) ==
    CASE category = "file_structure" -> ValidateFileStructure(s)
      [] category = "frontmatter" -> ValidateFrontmatter(s)
      [] category = "spec_compliance" -> ValidateSpecCompliance(s)
      [] category = "description_quality" -> ValidateDescriptionQuality(s)
      [] category = "progressive_disclosure" -> ValidateProgressiveDisclosure(s)
      [] category = "main_instructions" -> ValidateMainInstructions(s)
      [] category = "testing_invocation" -> ValidateTestingInvocation(s)

\* sum(self.scores[key] * self.WEIGHTS[key] for key in self.scores)
RECURSIVE WeightedSum(_, _)
WeightedSum(scores, categories) ==
    IF categories = << >> THEN 0
    ELSE scores[Head(categories)] * WEIGHTS[Head(categories)]
         + WeightedSum(scores, Tail(categories))

\* A pass rule that looks at the score only
PassedOnScore(errors, total_score) == total_score >= PassThreshold

\* passed = len(self.errors) == 0 and total_score >= 70
Passed(errors, total_score) == Len(errors) = 0 /\ total_score >= PassThreshold

\* The errors _load_skill_md and _parse_frontmatter append
LoadErrors(s) ==
    If(s.skill_md = "missing", <<"missing-skill-md">>)
    \o If(s.skill_md = "unreadable", <<"could-not-read-skill-md">>)
    \o If(s.skill_md = "no_open", <<"frontmatter-must-start">>)
    \o If(s.skill_md = "no_close", <<"frontmatter-missing-close">>)

RECURSIVE CategoryErrors(_, _)
CategoryErrors(s, categories) ==
    IF categories = << >> THEN << >>
    ELSE ValidateCategory(s, Head(categories)).errors
         \o CategoryErrors(s, Tail(categories))

\* SkillValidator.validate: (passed, score) with the scores and the errors
\* of the validator; raised when an exception leaves it
SkillValidate(s) ==
    LET scores == [c \in Categories |-> ValidateCategory(s, c).score]
        raised == \E c \in Categories : ValidateCategory(s, c).raised
        errors == LoadErrors(s) \o CategoryErrors(s, CategoryOrder)
        total_score == WeightedSum(scores, CategoryOrder)
    IN  IF s.skill_md \in {"missing", "unreadable"}
          THEN [passed |-> FALSE, total_score |-> 0, scores |-> << >>,
                errors |-> LoadErrors(s), raised |-> FALSE]
        ELSE IF raised
          THEN [passed |-> FALSE, total_score |-> 0, scores |-> << >>,
                errors |-> LoadErrors(s), raised |-> TRUE]
        ELSE [passed |-> Passed(errors, total_score), total_score |-> total_score,
              scores |-> scores, errors |-> errors, raised |-> FALSE]

SklOtherVars == <<procVars, idxVars, cli, srch, pre, mkt, aud>>

\* main -> SkillsValidator.validate up to the loop over the skill
\* directories.  structure: which of plugins/ and skills/ exists
\* ("neither": none); target: no path argument ("none"), a skill
\* directory, a category directory, or a path that is not a directory;
\* skills: the skill directories found, sorted.
StartSkills(structure, target, skills) ==
    /\ skl.pc = "idle"
    /\ target = "skill" => Len(skills) = 1
    /\ (structure = "neither" \/ target = "notdir") => skills = << >>
    /\ IF structure = "neither" \/ target = "notdir"
         THEN skl' = [SklIdle EXCEPT !.pc = "done", !.structure = structure,
                                     !.target = target, !.ret = "False",
                                     !.exit_code = 1]
       ELSE IF skills = << >>
         THEN skl' = [SklIdle EXCEPT !.pc = "done", !.structure = structure,
                                     !.target = target, !.ret = "True",
                                     !.exit_code = 0]
       ELSE skl' = [SklIdle EXCEPT !.pc = "loop", !.structure = structure,
                                   !.target = target, !.queue = skills]
    /\ UNCHANGED SklOtherVars

\* One iteration of "for skill_dir in skill_dirs"; an exception of the
\* skill validator ends the process with status 1.
ValidateSkill ==
    /\ skl.pc = "loop"
    /\ skl.queue # << >>
    /\ LET r == SkillValidate(Head(skl.queue))
       IN  IF r.raised
             THEN skl' = [skl EXCEPT !.pc = "done", !.ret = "raise", !.exit_code = 1]
             ELSE skl' = [skl EXCEPT !.queue = Tail(@),
                                     !.results = Append(@, [passed |-> r.passed,
                                                            total_score |-> r.total_score,
                                                            scores |-> r.scores,
                                                            errors |-> r.errors])]
    /\ UNCHANGED SklOtherVars

\* return all(passed for _, passed, _, _ in self.results), and sys.exit
FinishSkills ==
    /\ skl.pc = "loop"
    /\ skl.queue = << >>
    /\ LET success == \A i \in 1..Len(skl.results) : skl.results[i].passed
       IN  skl' = [skl EXCEPT !.pc = "done",
                              !.ret = IF success THEN "True" ELSE "False",
                              !.exit_code = IF success THEN 0 ELSE 1]
    /\ UNCHANGED SklOtherVars

ExitSkills ==
    /\ skl.pc = "done"
    /\ skl' = SklIdle
    /\ UNCHANGED SklOtherVars

NextSkl ==
    \/ \E s \in SkillInputs : StartSkills("plugins", "skill", << s >>)
    \/ \E structure \in {"plugins", "skills", "neither"},
          target \in {"none", "category", "notdir"}, skills \in SkillLists :
            StartSkills(structure, target, skills)
    \/ ValidateSkill
    \/ FinishSkills
    \/ ExitSkills

SpecSkl == InitConn /\ [][NextSkl]_vars

(***************************************************************************)
(* Properties of SkillValidator.validate and SkillsValidator.validate      *)
(***************************************************************************)
\* The weights sum to 1, every category score recorded lies in 0..100, and
\* a validated skill passed exactly when it has no error and its weighted
\* total is at least 70.
SkillRule ==
    /\ WeightedSum([c \in Categories |-> 1], CategoryOrder) = 100
    /\ \A i \in 1..Len(skl.results) :
        LET r == skl.results[i]
        IN  /\ \A c \in DOMAIN r.scores : r.scores[c] \in 0..100
            /\ r.scores # << >> =>
                 r.total_score = WeightedSum(r.scores, CategoryOrder)
            /\ r.passed <=> (r.errors = << >> /\ r.total_score >= 7000)

\* C9 as stated: the skill rule, and SkillsValidator.validate returns
\* True (exit 0) exactly when every validated skill passed, so also when
\* no skill was found.
C9_Original ==
    /\ SkillRule
    /\ (skl.pc = "done" /\ skl.ret # "raise") =>
        /\ (skl.ret = "True") <=> (\A i \in 1..Len(skl.results) : skl.results[i].passed)
        /\ (skl.ret = "True") <=> (skl.exit_code = 0)

\* C9: the skill rule, and SkillsValidator.validate returns True (exit 0)
\* exactly when a plugins/ or skills/ directory exists, the path argument
\* (if any) is a directory, and every validated skill passed; with such a
\* structure and no skill found it returns True; without it, it returns
\* False having validated nothing.
C9_Theorem ==
    /\ SkillRule
    /\ (skl.pc = "done" /\ skl.ret # "raise") =>
        /\ (skl.ret = "True") <=>
             /\ skl.structure # "neither"
             /\ skl.target # "notdir"
             /\ \A i \in 1..Len(skl.results) : skl.results[i].passed
        /\ (skl.ret = "True") <=> (skl.exit_code = 0)
        /\ (skl.structure = "neither" \/ skl.target = "notdir") => skl.results = << >>
    /\ (skl.pc = "done" /\ skl.ret = "raise") => skl.exit_code = 1

\* Two skills were validated: one passed, one without any error failed on
\* its score, and the run failed.
C9_Witness ==
    /\ skl.pc = "done"
    /\ skl.ret = "False"
    /\ Len(skl.results) = 2
    /\ skl.results[1].passed
    /\ ~skl.results[2].passed
    /\ skl.results[2].errors = << >>
    /\ skl.results[2].total_score < 7000

(***************************************************************************)
(* ConversationSearch (search-conversations.py)                            *)
(***************************************************************************)
\* Largest --limit
MaxLimit == 2

\* str.lower, and the case folding of LIKE, on the strings of the model
Lower(s) == IF s = "Components" THEN "components" ELSE s
LowerPath(path) == [i \in DOMAIN path |-> Lower(path[i])]

\* pattern in path: the pattern's segments occur in the path, in a row
Contains(path, pattern) ==
    \E i \in 0..(Len(path) - Len(pattern)) :
        SubSeq(path, i + 1, i + Len(pattern)) = pattern

\* path LIKE %pattern%: the same test without regard to case
Like(path, pattern) == Contains(LowerPath(path), LowerPath(pattern))

\* text LIKE %query%
LikeText(words, query) == \E w \in words : Lower(w) = Lower(query)

\* What the command line can give.  "" and << >> stand for an option that
\* is not given, 0 for a date that is not given; dates are compared as the
\* timestamps are.
Arguments ==
    [query : {"", "auth", "testing"}, semantic : BOOLEAN,
     file : {<< >>, <<"src", "components">>, <<"src", "Components">>, <<"docs">>},
     tool : {"", "Read"},
     date_from : 0..MaxTime, date_to : 0..MaxTime, limit : 1..MaxLimit]

\* results[:limit] of an ordered list of rows, as ids
RECURSIVE Ids(_)
Ids(rows) == IF rows = << >> THEN << >> ELSE << Head(rows).id >> \o Ids(Tail(rows))

Limit(rows, limit) == SubSeq(rows, 1, IF Len(rows) < limit THEN Len(rows) ELSE limit)

AllFiles(row) == row.files_read \cup row.files_written \cup row.files_edited

\* A variant of the filters of semantic_search without the test of
\* date_to.
PassesFiltersNoDateTo(details, args) ==
    /\ ~(args.date_from # 0 /\ details.timestamp < args.date_from)
    /\ args.file # << >> => \E f \in AllFiles(details) : Contains(f, args.file)

\* The date and file filters semantic_search applies to the details of one
\* result
PassesFilters(details, args) ==
    /\ ~(args.date_from # 0 /\ details.timestamp < args.date_from)
    /\ ~(args.date_to # 0 /\ details.timestamp > args.date_to)
    /\ args.file # << >> => \E f \in AllFiles(details) : Contains(f, args.file)

\* RAGIndexer.search: the n_results entries nearest to the query, nearest
\* first, of the ranking of the whole collection by distance
IndexerSearch(ranking, n_results) == Limit(ranking, n_results)

\* The loop of semantic_search over the results of the index
RECURSIVE EnrichResults(_, _, _, _)
EnrichResults(db, results, args, enriched) ==
    IF results = << >> THEN enriched
    ELSE LET result == Head(results)
             details == {r \in db.conversations : r.id = result.id}
         IN  IF details = {}
               THEN IF Len(enriched) >= args.limit THEN enriched
                    ELSE EnrichResults(db, Tail(results), args, enriched)
             ELSE IF ~PassesFilters(CHOOSE r \in details : TRUE, args)
               THEN EnrichResults(db, Tail(results), args, enriched)
             ELSE IF Len(enriched) + 1 >= args.limit
               THEN Append(enriched, result.id)
             ELSE EnrichResults(db, Tail(results), args, Append(enriched, result.id))

\* semantic_search
SemanticSearch(db, ranking, args) ==
    EnrichResults(db, IndexerSearch(ranking, args.limit * 2), args, << >>)

\* The WHERE clause of keyword_search
KeywordMatches(db, args) ==
    {r \in db.conversations :
        /\ \/ LikeText(r.first_user_message, args.query)
           \/ LikeText(r.last_assistant_message, args.query)
           \/ LikeText(r.topics, args.query)
        /\ args.date_from # 0 => r.timestamp >= args.date_from
        /\ args.date_to # 0 => r.timestamp <= args.date_to
        /\ args.file # << >> => \E f \in AllFiles(r) : Like(f, args.file)}

\* The rows search_by_file joins
FileMatches(db, args) ==
    {c \in db.conversations :
        \E fi \in BagToSet(db.file_interactions) :
            fi.conversation_id = c.id /\ Like(fi.file_path, args.file)}

\* The rows search_by_tool joins
ToolMatches(db, args) ==
    {c \in db.conversations :
        \E tu \in BagToSet(db.tool_usage) :
            tu.conversation_id = c.id /\ Lower(tu.tool_name) = Lower(args.tool)}

\* The branch main takes
Dispatch(args) ==
    IF args.tool # "" THEN "tool"
    ELSE IF args.file # << >> THEN "file"
    ELSE IF args.query # "" THEN (IF args.semantic THEN "semantic" ELSE "keyword")
    ELSE "usage"

\* The rows the SQL query of a branch selects
Selected(db, args, mode) ==
    CASE mode = "tool" -> ToolMatches(db, args)
      [] mode = "file" -> FileMatches(db, args)
      [] mode = "keyword" -> KeywordMatches(db, args)
      [] OTHER -> {}

\* The orders in which a query with ORDER BY timestamp DESC returns rows
Orders(rows) == {order \in SeqsOver(rows) : TimestampDesc(order)}

\* The rankings of the collection the index can return
Rankings(coll) == SeqsOver(coll)

\* The results of a branch, as conversation ids
SearchResults(db, args, mode, ranking, order) ==
    CASE mode = "semantic" -> SemanticSearch(db, ranking, args)
      [] mode = "usage" -> << >>
      [] OTHER -> Ids(Limit(order, args.limit))

\* The text search of main's "elif query" branch
TextSearch(db, args, ranking, order) ==
    SearchResults(db, args, IF args.semantic THEN "semantic" ELSE "keyword",
                  ranking, order)

SrchOtherVars == <<procVars, idxVars, cli, pre, mkt, skl, aud>>

\* search-conversations.py main on the committed database and the
\* collection: dispatch, search, output; exit(1) when nothing to search
\* for is given.  The ranking of the index and the order of rows with equal
\* timestamps are not the caller's to choose.
Search(args) ==
    /\ srch.pc = "idle"
    /\ LET mode == Dispatch(args)
       IN  \E ranking \in (IF mode = "semantic" THEN Rankings(collection) ELSE {<< >>}),
              order \in Orders(Selected(conn.durable, args, mode)) :
                srch' = [pc |-> "done", args |-> args, mode |-> mode,
                         results |-> SearchResults(conn.durable, args, mode, ranking, order),
                         exit_code |-> IF mode = "usage" THEN 1 ELSE 0]
    /\ UNCHANGED SrchOtherVars

ExitSearch ==
    /\ srch.pc = "done"
    /\ srch' = SrchIdle
    /\ UNCHANGED SrchOtherVars

\* process_project(reindex=False) over the queue on an open connection
RECURSIVE ProcessAll(_, _, _)
ProcessAll(c, files, queue) ==
    IF queue = << >> THEN c
    ELSE LET path == Head(queue)
             md == ProcessConversation(path, files[path], ParseJsonl(files[path].lines))
             r == ProcessFile(c, path, files[path], FALSE, md.tools_used)
         IN  ProcessAll([view |-> r.view, durable |-> r.durable], files, Tail(queue))

\* The transcripts of the search model: readable, every line an object or
\* skipped, every tool name storable
SearchFileStates ==
    {f \in FileStates :
        /\ f.readable
        /\ ~ProcessRaises(ParseJsonl(f.lines))
        /\ ~StoreRaises(ProcessConversation(<<"proj", "a">>, f, ParseJsonl(f.lines)))}

\* The processor has run once over the files; the indexer has not run
\* yet, or has run with --rebuild.
InitSearch ==
    /\ fs \in [ProjectFiles -> SearchFileStates]
    /\ \E order \in Perms(ProjectFiles) :
          LET c == ProcessAll([view |-> EmptyDB, durable |-> EmptyDB], fs, order)
          IN  conn = [view |-> c.durable, durable |-> c.durable]
    /\ collection \in {{}, {EntryOf(r) : r \in conn.durable.conversations}}
    /\ run = Idle
    /\ last = NoCall
    /\ idx = IdxIdle
    /\ ToolsIdle

NextSearch ==
    \/ \E args \in Arguments : Search(args)
    \/ ExitSearch

SpecSearch == InitSearch /\ [][NextSearch]_vars

(***************************************************************************)
(* Properties of the search CLI                                            *)
(***************************************************************************)
\* C10 as stated: with a query and --file (no --tool, no dates) the results are
\* those of the text search for the query, semantic or keyword as chosen,
\* restricted to the conversations that touched a file whose path
\* contains the pattern.
C10_Original ==
    (srch.pc = "done" /\ srch.args.query # "" /\ srch.args.file # << >>
        /\ srch.args.tool = "" /\ srch.args.date_from = 0 /\ srch.args.date_to = 0)
    => \E ranking \in Rankings(collection) \cup {<< >>},
          order \in Orders(KeywordMatches(conn.durable, srch.args)) :
            /\ srch.args.semantic => ranking \in Rankings(collection)
            /\ srch.results = TextSearch(conn.durable, srch.args, ranking, order)

(***************************************************************************)
(* Audit findings (remediation_planner.py, audit_engine.py,                *)
(* technical_debt.py)                                                      *)
(***************************************************************************)
\* Most findings per plan
MaxFindings == 3

\* The value of a key the finding does not have
Absent == "<absent>"

\* finding.get(key, default)
Get(finding, key, default) ==
    IF finding[key] = Absent THEN default ELSE finding[key]

\* A finding, as far as the audit functions read it
Findings ==
    [severity : {"critical", "high", "medium", "low", "info", Absent},
     category : {"security", "testing", "quality", "performance", "docs", Absent},
     effort : {"low", "medium", "high", "unknown", Absent}]

\* A variant of calculate_priority_score that looks the severity up without
\* the default 'low' of finding.get.
CalculatePriorityScoreNoDefault(finding) ==
    LET severity == finding.severity
        impact == CASE severity = "critical" -> 10 [] severity = "high" -> 7
                    [] severity = "medium" -> 4 [] severity = "low" -> 2
                    [] OTHER -> 1
        category == Get(finding, "category", "")
        frequency == IF category \in {"security", "testing"} THEN 10
                     ELSE IF category \in {"quality", "performance"} THEN 6
                     ELSE 3
        level == Get(finding, "effort", "medium")
        effort == CASE level = "low" -> 2 [] level = "medium" -> 5
                    [] level = "high" -> 8 [] OTHER -> 5
        score == (impact * 10) + (frequency * 5) - (effort * 2)
    IN  IF score > 0 THEN score ELSE 0

\* calculate_priority_score
CalculatePriorityScore(finding) ==
    LET severity == Get(finding, "severity", "low")
        impact == CASE severity = "critical" -> 10 [] severity = "high" -> 7
                    [] severity = "medium" -> 4 [] severity = "low" -> 2
                    [] OTHER -> 1
        category == Get(finding, "category", "")
        frequency == IF category \in {"security", "testing"} THEN 10
                     ELSE IF category \in {"quality", "performance"} THEN 6
                     ELSE 3
        level == Get(finding, "effort", "medium")
        effort == CASE level = "low" -> 2 [] level = "medium" -> 5
                    [] level = "high" -> 8 [] OTHER -> 5
        score == (impact * 10) + (frequency * 5) - (effort * 2)
    IN  IF score > 0 THEN score ELSE 0

\* The loop that flattens findings (a dict, in insertion order, of lists):
\* every finding gets the key of its list as category and its priority
\* score.
RECURSIVE Flatten(_)
Flatten(findings) ==
    IF findings = << >> THEN << >>
    ELSE LET entry == Head(findings)
             WithScore(f) == LET g == [severity |-> f.severity,
                                    category |-> entry.category,
                                    effort |-> f.effort]
                          IN  [severity |-> g.severity, category |-> g.category,
                               effort |-> g.effort,
                               priority_score |-> CalculatePriorityScore(g)]
         IN  [i \in 1..Len(entry.findings) |-> WithScore(entry.findings[i])]
                 \o Flatten(Tail(findings))

\* all_findings.sort(key=priority_score, reverse=True), on positions:
\* list.sort is stable, also when reversed, so position i goes behind
\* every earlier position whose score is not smaller.
RECURSIVE SortByPriority(_, _)
SortByPriority(all, n) ==
    IF n = 0 THEN << >>
    ELSE LET sorted == SortByPriority(all, n - 1)
             k == Cardinality({j \in 1..Len(sorted) :
                      all[sorted[j]].priority_score >= all[n].priority_score})
         IN  SubSeq(sorted, 1, k) \o << n >> \o SubSeq(sorted, k + 1, Len(sorted))

\* generate_remediation_plan up to the four lists the plan is written
\* from, as positions of all_findings; f['severity'] raises KeyError on a
\* finding without the key.
GenerateRemediationPlan(findings) ==
    LET all == Flatten(findings)
        sorted == SortByPriority(all, Len(all))
        Issues(severity) ==
            LET Test(i) == all[i].severity = severity IN SelectSeq(sorted, Test)
    IN  IF \E i \in 1..Len(all) : all[i].severity = Absent
          THEN [raised |-> TRUE, P0 |-> << >>, P1 |-> << >>, P2 |-> << >>, P3 |-> << >>]
        ELSE [raised |-> FALSE, P0 |-> Issues("critical"), P1 |-> Issues("high"),
              P2 |-> Issues("medium"), P3 |-> Issues("low")]

\* The findings argument of generate_remediation_plan: one or two
\* categories, at most MaxFindings findings in all
PlanInputs ==
    LET F == [severity : {"critical", "high", Absent}, category : {Absent},
              effort : {"low", "medium", Absent}]
        Lists(n) == UNION {[1..k -> F] : k \in 0..n}
    IN  {<< [category |-> "security", findings |-> l] >> : l \in Lists(MaxFindings)}
        \cup
        {<< [category |-> c[1], findings |-> l1], [category |-> c[2], findings |-> l2] >> :
            c \in {<<"security", "docs">>, <<"docs", "security">>},
            l1 \in Lists(MaxFindings), l2 \in Lists(1)}

AudOtherVars == <<procVars, idxVars, cli, srch, pre, mkt, skl>>

\* One call of an audit function
Call(tool, input, output) ==
    /\ aud.pc = "idle"
    /\ aud' = [pc |-> "done", tool |-> tool, input |-> input, output |-> output]
    /\ UNCHANGED AudOtherVars

Score(finding) == Call("score", finding, CalculatePriorityScore(finding))

Plan(findings) == Call("plan", findings, GenerateRemediationPlan(findings))

ExitAudit ==
    /\ aud.pc = "done"
    /\ aud' = AudIdle
    /\ UNCHANGED AudOtherVars

\* Most findings of one severity in a list
MaxCount == 11

\* Lists of findings of which only the severity is read: some critical
\* ones, then up to two of another kind
SeverityLists ==
    LET Repeat(s, n) == [i \in 1..n |-> [severity |-> s]]
    IN  {Repeat("critical", n1) \o Repeat(s, n2) :
            n1 \in 0..MaxCount,
            s \in {"high", "medium", "low", "info", Absent},
            n2 \in 0..2}

\* self.findings of an engine: the categories of the scope that ran, each
\* with the list its analyzer returned
EngineFindings ==
    {<< >>}
    \cup {<< [category |-> "security", findings |-> l] >> : l \in SeverityLists}
    \cup {<< [category |-> "security", findings |-> l],
             [category |-> "quality", findings |-> l2] >> :
            l \in SeverityLists,
            l2 \in {<< >>, << [severity |-> "low"] >>, << [severity |-> "critical"] >>}}

\* A variant of the severity weights that uses those of the codebase
\* auditor in both engines.
SeverityWeightCodebase(engine, finding) ==
    LET severity == Get(finding, "severity", "low")
    IN  CASE severity = "critical" -> 10 [] severity = "high" -> 5
          [] severity = "medium" -> 2 [] severity = "low" -> 1 [] OTHER -> 1

\* severity_weights.get(f.get('severity', 'low'), 1) in the engine
\* "codebase" (AuditEngine) or "bulletproof" (BulletproofAuditEngine)
SeverityWeight(engine, finding) ==
    LET severity == Get(finding, "severity", "low")
    IN  IF engine = "codebase"
          THEN CASE severity = "critical" -> 10 [] severity = "high" -> 5
                 [] severity = "medium" -> 2 [] severity = "low" -> 1 [] OTHER -> 1
        ELSE CASE severity = "critical" -> 15 [] severity = "high" -> 8
               [] severity = "medium" -> 3 [] severity = "low" -> 1 [] OTHER -> 1

RECURSIVE TotalWeight(_, _)
TotalWeight(engine, findings) ==
    IF findings = << >> THEN 0
    ELSE SeverityWeight(engine, Head(findings)) + TotalWeight(engine, Tail(findings))

\* The score of one category
CategoryScore(engine, findings) ==
    LET total_weight == TotalWeight(engine, findings)
        points == IF engine = "codebase" THEN total_weight ELSE total_weight * 2
        penalty == IF points < 100 THEN points ELSE 100
    IN  IF findings = << >> THEN 100
        ELSE IF 100 - penalty > 0 THEN 100 - penalty ELSE 0

RECURSIVE SumScores(_)
SumScores(scores) ==
    IF scores = << >> THEN 0 ELSE Head(scores).score + SumScores(Tail(scores))

\* calculate_scores: the category scores in order, and 'overall' as the
\* quotient num / den
CalculateScores(engine, findings) ==
    LET scores == [i \in 1..Len(findings) |->
                      [category |-> findings[i].category,
                       score |-> CategoryScore(engine, findings[i].findings)]]
    IN  [scores |-> scores,
         overall |-> IF scores # << >>
                       THEN [num |-> SumScores(scores), den |-> Len(scores)]
                     ELSE [num |-> 100, den |-> 1]]

\* total_loc of calculate_sqale_rating
LocValues == {0, 49, 50, 124, 125, 249, 250, 499, 500, 4000}

\* severity_hours.get(finding.get('severity', 'low'), 0.5), in half hours
RECURSIVE RemediationHalfHours(_)
RemediationHalfHours(all_findings) ==
    IF all_findings = << >> THEN 0
    ELSE LET severity == Get(Head(all_findings), "severity", "low")
         IN  (CASE severity = "critical" -> 16 [] severity = "high" -> 8
                [] severity = "medium" -> 4 [] severity = "low" -> 1 [] OTHER -> 1)
             + RemediationHalfHours(Tail(all_findings))

\* A variant of calculate_sqale_rating whose upper bounds are exclusive.
CalculateSqaleRatingExclusive(all_findings, total_loc) ==
    LET half_hours == RemediationHalfHours(all_findings)
        AtMost(bound) == half_hours * 2500 < bound * total_loc
    IN  IF total_loc = 0 THEN "A"
        ELSE IF AtMost(5) THEN "A"
        ELSE IF AtMost(10) THEN "B"
        ELSE IF AtMost(20) THEN "C"
        ELSE IF AtMost(50) THEN "D"
        ELSE "E"

\* calculate_sqale_rating for total_loc >= 0.  The debt ratio is
\* (half_hours / 2) / (total_loc / 50) * 100 = half_hours * 2500 / total_loc,
\* so debt_ratio <= bound is half_hours * 2500 <= bound * total_loc.
CalculateSqaleRating(all_findings, total_loc) ==
    LET half_hours == RemediationHalfHours(all_findings)
        AtMost(bound) == half_hours * 2500 <= bound * total_loc
    IN  IF total_loc = 0 THEN "A"
        ELSE IF AtMost(5) THEN "A"
        ELSE IF AtMost(10) THEN "B"
        ELSE IF AtMost(20) THEN "C"
        ELSE IF AtMost(50) THEN "D"
        ELSE "E"

Scores(engine, findings) ==
    Call("scores", [engine |-> engine, findings |-> findings],
         CalculateScores(engine, findings))

Sqale(all_findings, total_loc) ==
    Call("sqale", [all_findings |-> all_findings, total_loc |-> total_loc],
         CalculateSqaleRating(all_findings, total_loc))

NextAud ==
    \/ /\ aud.pc = "idle"
       /\ \/ \E finding \in Findings : Score(finding)
          \/ \E findings \in PlanInputs : Plan(findings)
          \/ \E engine \in {"codebase", "bulletproof"}, findings \in EngineFindings :
                Scores(engine, findings)
          \/ \E all_findings \in SeverityLists, total_loc \in LocValues :
                Sqale(all_findings, total_loc)
    \/ ExitAudit

SpecAud == InitConn /\ [][NextAud]_vars

(***************************************************************************)
(* Properties of the audit functions                                       *)
(***************************************************************************)
\* C11: calculate_priority_score returns max(0, impact*10 + frequency*5 -
\* effort*2) with impact 10/7/4/2 for critical/high/medium/low (2 when the
\* severity is absent, 1 when unrecognised), frequency 10 for security and
\* testing, 6 for quality and performance, 3 otherwise, and effort 2/5/8
\* for low/medium/high (5 otherwise); the result is never negative.
C11_Theorem ==
    (aud.pc = "done" /\ aud.tool = "score") =>
        LET f == aud.input
            impact == CASE f.severity = "critical" -> 10 [] f.severity = "high" -> 7
                        [] f.severity = "medium" -> 4 [] f.severity = "low" -> 2
                        [] f.severity = Absent -> 2 [] OTHER -> 1
            frequency == CASE f.category \in {"security", "testing"} -> 10
                           [] f.category \in {"quality", "performance"} -> 6
                           [] OTHER -> 3
            effort == CASE f.effort = "low" -> 2 [] f.effort = "medium" -> 5
                        [] f.effort = "high" -> 8 [] OTHER -> 5
            value == impact * 10 + frequency * 5 - effort * 2
        IN  /\ aud.output = (IF value > 0 THEN value ELSE 0)
            /\ aud.output >= 0

\* A finding without severity, of category security and high effort, scores
\* 2*10 + 10*5 - 8*2.
C11_Witness ==
    /\ aud.pc = "done" /\ aud.tool = "score"
    /\ aud.input.severity = Absent /\ aud.input.category = "security"
    /\ aud.input.effort = "high"
    /\ aud.output = 54

\* C12 as stated: generate_remediation_plan places every finding of
\* severity critical, high, medium, low in exactly one of P0, P1, P2, P3
\* respectively, each bucket in non-increasing score order, equal scores in
\* input order.
C12_Original ==
    (aud.pc = "done" /\ aud.tool = "plan") =>
        LET all == Flatten(aud.input)
            out == aud.output
            Bucket(severity) ==
                CASE severity = "critical" -> out.P0 [] severity = "high" -> out.P1
                  [] severity = "medium" -> out.P2 [] OTHER -> out.P3
            Times(bucket, i) == Cardinality({k \in 1..Len(bucket) : bucket[k] = i})
            Ordered(bucket) ==
                \A j, k \in 1..Len(bucket) : j < k =>
                    \/ all[bucket[j]].priority_score > all[bucket[k]].priority_score
                    \/ /\ all[bucket[j]].priority_score = all[bucket[k]].priority_score
                       /\ bucket[j] < bucket[k]
        IN  /\ ~out.raised
            /\ \A i \in 1..Len(all) :
                  all[i].severity \in {"critical", "high", "medium", "low"} =>
                      /\ Times(Bucket(all[i].severity), i) = 1
                      /\ Times(out.P0, i) + Times(out.P1, i)
                           + Times(out.P2, i) + Times(out.P3, i) = 1
            /\ Ordered(out.P0) /\ Ordered(out.P1) /\ Ordered(out.P2) /\ Ordered(out.P3)

C14_Theorem ==
    (aud.pc = "done" /\ aud.tool = "sqale") =>
        LET l == aud.input.all_findings
            loc == aud.input.total_loc
            Count(S) == Cardinality({i \in 1..Len(l) : l[i].severity \in S})
            half_hours == 16 * Count({"critical"}) + 8 * Count({"high"})
                          + 4 * Count({"medium"}) + Count({"low", "info", Absent})
            \* ratio <= bound, for loc > 0
            Within(bound) == 100 * half_hours * 50 <= bound * 2 * loc
            Rank(r) == CASE r = "A" -> 1 [] r = "B" -> 2 [] r = "C" -> 3
                         [] r = "D" -> 4 [] OTHER -> 5
        IN  /\ aud.output \in {"A", "B", "C", "D", "E"}
            /\ loc = 0 => aud.output = "A"
            /\ loc > 0 =>
                  aud.output = (IF Within(5) THEN "A" ELSE IF Within(10) THEN "B"
                                ELSE IF Within(20) THEN "C"
                                ELSE IF Within(50) THEN "D" ELSE "E")
            /\ \A s \in {"critical", "high", "medium", "low", "info", Absent} :
                  Rank(CalculateSqaleRating(Append(l, [severity |-> s]), loc))
                      >= Rank(aud.output)

\* One low finding in 500 lines: the ratio is exactly 5, rating A.
C14_Witness ==
    /\ aud.pc = "done" /\ aud.tool = "sqale"
    /\ aud.input.all_findings = << [severity |-> "low"] >>
    /\ aud.input.total_loc = 500
    /\ aud.output = "A"

(***************************************************************************)
(* Properties of the stored rows                                           *)
(***************************************************************************)
\* C16 as stated: every file path recorded in processing_state has a
\* conversations row whose id is the stem of the file; storing one
\* conversation never removes the row of another, also when two files
\* have the same content.
C16_Original ==
    \A s \in conn.durable.processing_state :
        \E c \in conn.durable.conversations : c.id = Stem(s.file_path)

\* C17 as stated: the writes of a process_file call that returned False
\* on an exception never become durable, so every durable conversations
\* row comes with the processing_state row that the same successful call
\* wrote for the same content.
C17_Original ==
    \A c \in conn.durable.conversations :
        \E s \in conn.durable.processing_state :
            Stem(s.file_path) = c.id /\ s.file_hash = c.conversation_hash

\* C18: right after process_file(reindex=True) has stored a file whose
\* content is the one stored before, there is exactly one conversations
\* row for its id, exactly one file_interactions row for each path and
\* interaction type and exactly one tool_usage row for each tool of the
\* conversation, and no other row of that conversation.
C18_Theorem ==
    (run.pc \in {"loop", "done"} /\ last.reindex /\ last.ret = "True"
        /\ last.stored = "same") =>
        LET id == Stem(last.path)
            md == ProcessConversation(last.path, fs[last.path],
                                      ParseJsonl(fs[last.path].lines))
            Of(bag) == {e \in DOMAIN bag : e.conversation_id = id}
        IN  /\ Cardinality({c \in conn.view.conversations : c.id = id}) = 1
            /\ Of(conn.view.file_interactions) = FileRows(md)
            /\ \A e \in Of(conn.view.file_interactions) : conn.view.file_interactions[e] = 1
            /\ Of(conn.view.tool_usage) = ToolRows(md, md.tools_used)
            /\ \A e \in Of(conn.view.tool_usage) : conn.view.tool_usage[e] = 1

\* A file with two file interactions and one tool was stored again
\* unchanged.
C18_Witness ==
    /\ run.pc \in {"loop", "done"} /\ last.reindex /\ last.ret = "True"
    /\ last.stored = "same"
    /\ Cardinality({e \in DOMAIN conn.view.file_interactions :
                        e.conversation_id = Stem(last.path)}) = 2
    /\ Cardinality({e \in DOMAIN conn.view.tool_usage :
                        e.conversation_id = Stem(last.path)}) = 1

(***************************************************************************)
(* ConversationSearch.semantic_search on three transcripts                 *)
(***************************************************************************)
\* The project directory with a third transcript
SearchFiles == ProjectFiles \cup { <<"proj", "c">> }

\* The third transcript is empty or one more conversation that wrote a
\* file.
ThirdFileStates ==
    {[readable |-> TRUE, lines |-> l, mtime |-> 1] :
        l \in {<< >>, << User({"deploy"}), Assistant({"ok"}, {"Read"}, {}, {AppPy}, {}) >>}}

\* The processor has run over the files in some order, and the indexer
\* has run with --rebuild when the processor had stored the first k of
\* them (k = 0: an empty collection).
InitSem ==
    /\ fs \in [SearchFiles ->  SearchFileStates \cup ThirdFileStates]
    /\ \A path \in ProjectFiles : fs[path] \in SearchFileStates
    /\ fs[<<"proj", "c">>] \in ThirdFileStates
    /\ \E order \in Perms(SearchFiles), k \in 0..Cardinality(SearchFiles) :
          LET start == [view |-> EmptyDB, durable |-> EmptyDB]
              c == ProcessAll(start, fs, order)
              indexed == ProcessAll(start, fs, SubSeq(order, 1, k))
          IN  /\ conn = [view |-> c.durable, durable |-> c.durable]
              /\ collection = {EntryOf(r) : r \in indexed.durable.conversations}
    /\ run = Idle
    /\ last = NoCall
    /\ idx = IdxIdle
    /\ ToolsIdle

\* One call of semantic_search(query, limit, date_from, date_to,
\* file_pattern) on the committed database; ranking is the order in which
\* the index ranks the whole collection for the query.
SemanticSearchCall(args, ranking) ==
    /\ srch.pc = "idle"
    /\ ranking \in Rankings(collection)
    /\ srch' = [pc |-> "done", args |-> args, mode |-> "semantic_search",
                ranking |-> [i \in 1..Len(ranking) |-> ranking[i].id],
                results |-> SemanticSearch(conn.durable, ranking, args),
                exit_code |-> -1]
    /\ UNCHANGED SrchOtherVars

NextSem ==
    \/ /\ srch.pc = "idle"
       /\ \E args \in [query : {"auth"}, limit : 1..MaxLimit,
                     date_from : 0..MaxTime, date_to : 0..MaxTime,
                     file : {<< >>, <<"src", "components">>, <<"src", "Components">>,
                             <<"docs">>}] :
         \E ranking \in Rankings(collection) : SemanticSearchCall(args, ranking)
    \/ ExitSearch

SpecSem == InitSem /\ [][NextSem]_vars

(***************************************************************************)
(* Properties of semantic_search                                           *)
(***************************************************************************)
\* C19: semantic_search returns at most limit results; each is a
\* conversation of the relational store that satisfies every filter given
\* (timestamp >= date_from, timestamp <= date_to, a touched file path
\* contains file_pattern); the results are in the order of the ranking of
\* the index.
C19_Theorem ==
    (srch.pc = "done" /\ srch.mode = "semantic_search") =>
        LET args == srch.args
            results == srch.results
            Row(id) == CHOOSE r \in conn.durable.conversations : r.id = id
            Rank(id) == CHOOSE i \in 1..Len(srch.ranking) : srch.ranking[i] = id
        IN  /\ Len(results) <= args.limit
            /\ \A k \in 1..Len(results) :
                  /\ \E r \in conn.durable.conversations : r.id = results[k]
                  /\ \E i \in 1..Len(srch.ranking) : srch.ranking[i] = results[k]
                  /\ args.date_from # 0 => Row(results[k]).timestamp >= args.date_from
                  /\ args.date_to # 0 => Row(results[k]).timestamp <= args.date_to
                  /\ args.file # << >> =>
                        \E f \in Row(results[k]).files_read
                                  \cup Row(results[k]).files_written
                                  \cup Row(results[k]).files_edited :
                            Contains(f, args.file)
            /\ \A j, k \in 1..Len(results) : j < k => Rank(results[j]) < Rank(results[k])

\* Three indexed conversations, both dates and a file pattern given, two
\* results.
C19_Witness ==
    /\ srch.pc = "done" /\ srch.mode = "semantic_search"
    /\ Len(srch.ranking) = 3
    /\ srch.args.date_from # 0 /\ srch.args.date_to # 0 /\ srch.args.file # << >>
    /\ srch.args.limit = 2
    /\ Len(srch.results) = 2

\* C20 as stated: if at least limit indexed conversations satisfy the date
\* and file filters given, semantic_search returns exactly limit results.
C20_Original ==
    (srch.pc = "done" /\ srch.mode = "semantic_search") =>
        LET args == srch.args
            matching ==
                {r \in conn.durable.conversations :
                    /\ \E e \in collection : e.id = r.id
                    /\ args.date_from # 0 => r.timestamp >= args.date_from
                    /\ args.date_to # 0 => r.timestamp <= args.date_to
                    /\ args.file # << >> =>
                          \E f \in r.files_read \cup r.files_written \cup r.files_edited :
                              Contains(f, args.file)}
        IN  Cardinality(matching) >= args.limit => Len(srch.results) = args.limit

(***************************************************************************)
(* The audit CLI (audit_engine.py main of both engines)                    *)
(***************************************************************************)
\* Most categories in --scope
MaxScope == 3

\* The keys of ANALYZERS, in the order of the dictionary
ANALYZERS(engine) ==
    IF engine = "codebase"
      THEN <<"quality", "testing", "security", "dependencies", "performance",
             "technical_debt">>
    ELSE <<"structure", "components", "state", "api", "testing", "styling",
           "errors", "performance", "security", "standards">>

\* category in ANALYZERS
Known(engine, category) ==
    \E i \in 1..Len(ANALYZERS(engine)) : ANALYZERS(engine)[i] = category

\* What loading and running one analyzer module does: the file is missing,
\* the module has no analyze(), the module or analyze() raises an
\* Exception, or analyze() returns a list of findings.
Modules ==
    [{"security", "components"} ->
        [kind : {"missing", "no_analyze", "raises"}, findings : {<< >>}]
        \cup [kind : {"returns"},
              findings : {<< >>, << [severity |-> "low"] >>,
                          << [severity |-> "critical"], [severity |-> "high"] >>}]]

\* args.scope.split(',') if args.scope else None; None is << >>
Scopes ==
    UNION {[1..n -> {"security", "components", "bogus"}] : n \in 0..MaxScope}

\* _run_analyzer: the findings of the analyzer of a known category; the
\* analyzer files that the modules do not describe are missing.
RunAnalyzer(modules, category) ==
    IF category \notin DOMAIN modules THEN << >>
    ELSE IF modules[category].kind = "returns" THEN modules[category].findings
    ELSE << >>

\* A variant of the loop body that stores what the analyzer returned even
\* when it is empty.
StoreFindingsAlways(findings, category, analyzer_findings) ==
    IF \E i \in 1..Len(findings) : findings[i].category = category
      THEN [i \in 1..Len(findings) |->
              IF findings[i].category = category
                THEN [category |-> category, findings |-> analyzer_findings]
              ELSE findings[i]]
    ELSE Append(findings, [category |-> category, findings |-> analyzer_findings])

\* if analyzer_findings: self.findings[category] = analyzer_findings.  The
\* dictionary is the sequence of its items: a key that exists keeps its
\* place.
StoreFindings(findings, category, analyzer_findings) ==
    IF analyzer_findings = << >> THEN findings
    ELSE IF \E i \in 1..Len(findings) : findings[i].category = category
      THEN [i \in 1..Len(findings) |->
              IF findings[i].category = category
                THEN [category |-> category, findings |-> analyzer_findings]
              ELSE findings[i]]
    ELSE Append(findings, [category |-> category, findings |-> analyzer_findings])

\* round(x, 1) of x = num / den >= 0, in tenths: ties go to the even tenth
RoundTenths(num, den) ==
    LET tenths == (num * 10) \div den
        rest == (num * 10) % den
    IN  IF 2 * rest > den THEN tenths + 1
        ELSE IF 2 * rest < den THEN tenths
        ELSE IF tenths % 2 = 0 THEN tenths ELSE tenths + 1

\* generate_summary; overall_score ('compliance_score' in the bulletproof
\* engine) in tenths
GenerateSummary(engine, findings) ==
    LET scores == CalculateScores(engine, findings)
        Count(severity) ==
            LET RECURSIVE InCategories(_)
                InCategories(i) ==
                    IF i = 0 THEN 0
                    ELSE InCategories(i - 1)
                         + Cardinality({k \in 1..Len(findings[i].findings) :
                              Get(findings[i].findings[k], "severity", Absent) = severity})
            IN  InCategories(Len(findings))
        RECURSIVE Total(_)
        Total(i) == IF i = 0 THEN 0 ELSE Total(i - 1) + Len(findings[i].findings)
    IN  [overall_score |-> RoundTenths(scores.overall.num, scores.overall.den),
         critical_issues |-> Count("critical"),
         high_issues |-> Count("high"),
         total_issues |-> Total(Len(findings))]

NoSummary ==
    [overall_score |-> -1, critical_issues |-> -1, high_issues |-> -1,
     total_issues |-> -1]

\* A variant of main that runs Phase 2 whatever --phase says.
MainAlwaysAnalyzes(engine, args, modules) ==
    /\ aud.pc = "idle"
    /\ aud' = [pc |-> IF ~args.codebase_exists THEN "done" ELSE "analysis",
               tool |-> "main",
               input |-> [engine |-> engine, args |-> args, modules |-> modules],
               output |-> [scope |-> IF args.scope # << >> THEN args.scope
                                       ELSE ANALYZERS(engine),
                           queue |-> IF args.scope # << >> THEN args.scope
                                       ELSE ANALYZERS(engine),
                           analyzed |-> << >>,
                           findings |-> << >>,
                           summary |-> NoSummary]]
    /\ UNCHANGED AudOtherVars

\* main up to the end of discover_project: the engine is constructed with
\* the scope given or all the keys of ANALYZERS; a codebase path that does
\* not exist ends the process with exit status 1.
Main(engine, args, modules) ==
    /\ aud.pc = "idle"
    /\ aud' = [pc |-> IF ~args.codebase_exists THEN "done"
                      ELSE IF args.phase = "full" THEN "analysis" ELSE "summary",
               tool |-> "main",
               input |-> [engine |-> engine, args |-> args, modules |-> modules],
               output |-> [scope |-> IF args.scope # << >> THEN args.scope
                                       ELSE ANALYZERS(engine),
                           queue |-> IF args.scope # << >> THEN args.scope
                                       ELSE ANALYZERS(engine),
                           analyzed |-> << >>,
                           findings |-> << >>,
                           summary |-> NoSummary]]
    /\ UNCHANGED AudOtherVars

\* One iteration of "for category in self.scope" in run_analysis
AnalyzeCategory ==
    /\ aud.pc = "analysis"
    /\ aud.output.queue # << >>
    /\ LET category == Head(aud.output.queue)
           engine == aud.input.engine
       IN  IF ~Known(engine, category)
             THEN aud' = [aud EXCEPT !.output.queue = Tail(@)]
           ELSE aud' = [aud EXCEPT
                   !.output.queue = Tail(@),
                   !.output.analyzed = Append(@, category),
                   !.output.findings =
                       StoreFindings(@, category,
                                     RunAnalyzer(aud.input.modules, category))]
    /\ UNCHANGED AudOtherVars

\* run_analysis returns
FinishAnalysis ==
    /\ aud.pc = "analysis"
    /\ aud.output.queue = << >>
    /\ aud' = [aud EXCEPT !.pc = "summary"]
    /\ UNCHANGED AudOtherVars

\* summary = engine.generate_summary() and the lines main prints
Summarize ==
    /\ aud.pc = "summary"
    /\ aud' = [aud EXCEPT !.pc = "done",
                          !.output.summary =
                              GenerateSummary(aud.input.engine, aud.output.findings)]
    /\ UNCHANGED AudOtherVars

NextEng ==
    \/ /\ aud.pc = "idle"
       /\ \E engine \in {"codebase", "bulletproof"}, modules \in Modules :
            \E args \in [codebase_exists : BOOLEAN, phase : {"quick", "full"},
                         scope : Scopes] :
                Main(engine, args, modules)
    \/ AnalyzeCategory
    \/ FinishAnalysis
    \/ Summarize
    \/ ExitAudit

SpecEng == InitConn /\ [][NextEng]_vars

(***************************************************************************)
(* Properties of the audit CLI                                             *)
(***************************************************************************)
\* C21: in run_analysis of both engines a category of the scope that is
\* unknown, whose analyzer file is missing, whose module has no analyze()
\* or whose analyzer raises contributes no findings and does not stop the
\* run: the known categories of the scope are all analyzed, in scope
\* order, and the keys of the findings are exactly the analyzed categories
\* whose analyzer returned at least one finding, each with that list.
C21_Theorem ==
    (aud.tool = "main" /\ aud.pc \in {"summary", "done"}
       /\ aud.input.args.codebase_exists /\ aud.input.args.phase = "full") =>
        LET engine == aud.input.engine
            modules == aud.input.modules
            scope == aud.output.scope
            findings == aud.output.findings
            Returned(category) ==
                IF category \in DOMAIN modules /\ modules[category].kind = "returns"
                  THEN modules[category].findings
                ELSE << >>
        IN  /\ aud.output.analyzed = SelectSeq(scope, LAMBDA c : Known(engine, c))
            /\ \A i \in 1..Len(findings) :
                  /\ findings[i].findings # << >>
                  /\ findings[i].findings = Returned(findings[i].category)
                  /\ \E k \in 1..Len(scope) :
                        scope[k] = findings[i].category /\ Known(engine, scope[k])
            /\ \A k \in 1..Len(scope) :
                  (Known(engine, scope[k]) /\ Returned(scope[k]) # << >>) =>
                      \E i \in 1..Len(findings) : findings[i].category = scope[k]
            /\ \A i, j \in 1..Len(findings) :
                  i < j =>
                      /\ findings[i].category # findings[j].category
                      /\ \E k \in 1..Len(scope) :
                            /\ scope[k] = findings[i].category
                            /\ \A m \in 1..k : scope[m] # findings[j].category

\* A scope of an unknown category, a category whose analyzer raises and a
\* category with findings: the last one is analyzed and is the only key.
C21_Witness ==
    /\ aud.tool = "main" /\ aud.pc = "done"
    /\ aud.input.engine = "bulletproof"
    /\ aud.input.args.codebase_exists /\ aud.input.args.phase = "full"
    /\ aud.input.args.scope = <<"bogus", "components", "security">>
    /\ aud.input.modules["components"].kind = "raises"
    /\ aud.input.modules["security"].findings # << >>
    /\ aud.output.analyzed = <<"components", "security">>
    /\ Len(aud.output.findings) = 1
    /\ aud.output.findings[1].category = "security"

\* C22 as stated: adding a finding to the findings of an engine, to a
\* category that has findings or to a category of ANALYZERS that had none,
\* never increases the 'overall' score of calculate_scores.
C22_Original ==
    (aud.tool = "main" /\ aud.pc = "done" /\ aud.input.args.codebase_exists) =>
        LET engine == aud.input.engine
            findings == aud.output.findings
            before == CalculateScores(engine, findings).overall
            keys == {findings[i].category : i \in 1..Len(findings)}
            AddTo(i, finding) ==
                [findings EXCEPT ![i].findings = Append(@, finding)]
            AddNew(category, finding) ==
                Append(findings, [category |-> category, findings |-> << finding >>])
            NotAbove(after) == after.num * before.den <= before.num * after.den
        IN  \A severity \in {"critical", "high", "medium", "low"} :
              /\ \A i \in 1..Len(findings) :
                    NotAbove(CalculateScores(engine,
                                AddTo(i, [severity |-> severity])).overall)
              /\ \A k \in 1..Len(ANALYZERS(engine)) :
                    ANALYZERS(engine)[k] \notin keys =>
                        NotAbove(CalculateScores(engine,
                                    AddNew(ANALYZERS(engine)[k],
                                           [severity |-> severity])).overall)

\* C23: with --phase quick the audit CLI runs Phase 1 only: run_analysis
\* is never entered, no analyzer is run and the findings stay empty, so the
\* summary reports 0 issues (total, critical and high) and an overall
\* score of 100.0, whatever the analyzers would have found.
C23_Theorem ==
    (aud.tool = "main" /\ aud.input.args.codebase_exists
       /\ aud.input.args.phase = "quick") =>
        /\ aud.pc # "analysis"
        /\ aud.output.analyzed = << >>
        /\ aud.output.findings = << >>
        /\ aud.pc = "done" =>
              aud.output.summary =
                  [overall_score |-> 1000, critical_issues |-> 0,
                   high_issues |-> 0, total_issues |-> 0]

\* A quick audit, finished, of a codebase in which the security analyzer
\* would have reported a critical finding.
C23_Witness ==
    /\ aud.tool = "main" /\ aud.pc = "done"
    /\ aud.input.engine = "codebase"
    /\ aud.input.args.codebase_exists /\ aud.input.args.phase = "quick"
    /\ aud.input.args.scope = <<"security">>
    /\ aud.input.modules["security"].findings
          = << [severity |-> "critical"], [severity |-> "high"] >>
    /\ aud.output.summary.total_issues = 0
    /\ aud.output.summary.overall_score = 1000

(***************************************************************************)
(* SkillValidator._parse_frontmatter (validate-skills.py)                  *)
(***************************************************************************)
\* Most keys in a frontmatter
MaxKeys == 3

\* The value after "key:" as the parser tells values apart: plain text,
\* text in double or single quotes, text that opens with one quote and
\* closes with the other, or a block scalar indicator.  Values in brackets
\* are left out.
Value(kind, text) == [kind |-> kind, text |-> text]

\* One line of the frontmatter: indent is line.startswith(' '); a blank
\* line, a comment, "key: value", or text without a colon
FrontLine(indent, kind, key, value) ==
    [indent |-> indent, kind |-> kind, key |-> key, value |-> value]

BlankLine == FrontLine(FALSE, "blank", "", Value("plain", ""))

\* The frontmatters parsed: after the blank rest of the opening line, up
\* to MaxKeys different keys in any order, each a scalar or a block scalar
\* with one or two indented continuation lines.
Frontmatters ==
    LET keys == {"name", "description", "version", "license"}
        Scalar1(k) ==
            {<< FrontLine(FALSE, "pair", k, Value(q, "my-skill")) >> :
                q \in {"plain", "double", "single", "mixed"}}
        Block(k) ==
            {<< FrontLine(FALSE, "pair", k, Value("block", ">-")),
                FrontLine(TRUE, "text", "", Value("plain", "Does things")) >> \o more :
                more \in {<< >>, << FrontLine(TRUE, "text", "", Value("plain", "well")) >>}}
        Entries(k) == Scalar1(k) \cup Block(k)
        RECURSIVE Docs(_, _)
        Docs(n, used) ==
            IF n = 0 THEN {<< >>}
            ELSE {<< >>}
                 \cup UNION {UNION {{e \o rest : rest \in Docs(n - 1, used \cup {k})} :
                                 e \in Entries(k)} : k \in keys \ used}
    IN  {<< BlankLine >> \o doc : doc \in Docs(MaxKeys, {})}

\* self.skill_md_content: whether it starts with '---', whether a closing
\* '---' line follows, and the lines between them
SkillMdContents ==
    [start : {TRUE}, closed : {TRUE}, lines : Frontmatters]
    \cup [start : {FALSE}, closed : {TRUE}, lines : {<< BlankLine >>}]
    \cup [start : {TRUE}, closed : {FALSE}, lines : {<< BlankLine >>}]

\* _parse_frontmatter.  A value of the dictionary is the sequence of the
\* stripped lines that ' '.join put one space between: a scalar has one
\* part; '' is the empty sequence.
ParseFrontmatter(content) ==
    LET Stripped(line) == [key |-> line.key, value |-> line.value]
        Empty == [key |-> "", value |-> Value("plain", "")]
        Str(value) ==
            IF value = Value("plain", "") THEN << >>
            ELSE << [key |-> "", value |-> value] >>
        \* ' '.join(current_value_lines).strip()
        RECURSIVE Strip(_)
        Strip(parts) ==
            IF parts = << >> THEN << >>
            ELSE IF Head(parts) = Empty THEN Strip(Tail(parts))
            ELSE IF parts[Len(parts)] = Empty THEN Strip(SubSeq(parts, 1, Len(parts) - 1))
            ELSE parts
        \* value[1:-1] for a value in matching quotes
        Unquote(value) ==
            IF value.kind \in {"double", "single"} THEN Value("plain", value.text)
            ELSE value
        Put(frontmatter, key, value) ==
            [k \in DOMAIN frontmatter \cup {key} |->
                IF k = key THEN value ELSE frontmatter[k]]
        \* The body of "for line in lines"; current_key None is ""
        Step(st, line) ==
            IF line.kind \in {"blank", "comment"}
              THEN IF st.in_multiline /\ st.current_key # ""
                     THEN [st EXCEPT !.current_value_lines = Append(@, Empty)]
                   ELSE st
            ELSE IF ~line.indent /\ line.kind = "pair" /\ ~st.in_multiline
              THEN LET save == st.current_key # "" /\ st.current_value_lines # << >>
                       saved == IF save
                                  THEN Put(st.frontmatter, st.current_key,
                                           Strip(st.current_value_lines))
                                ELSE st.frontmatter
                   IN  IF line.value.kind = "block"
                         THEN [frontmatter |-> saved, current_key |-> line.key,
                               current_value_lines |-> << >>, in_multiline |-> TRUE]
                       ELSE [frontmatter |-> Put(saved, line.key, Str(Unquote(line.value))),
                             current_key |-> "",
                             current_value_lines |->
                                 IF save THEN << >> ELSE st.current_value_lines,
                             in_multiline |-> FALSE]
            ELSE IF st.in_multiline /\ st.current_key # ""
              THEN IF line.indent
                     THEN [st EXCEPT !.current_value_lines = Append(@, Stripped(line))]
                   ELSE LET ended == Put(st.frontmatter, st.current_key,
                                         Strip(st.current_value_lines))
                        IN  IF line.kind # "pair"
                              THEN [st EXCEPT !.frontmatter = ended,
                                              !.current_value_lines = << >>,
                                              !.in_multiline = FALSE]
                            ELSE IF line.value # Value("plain", "")
                                    /\ line.value.kind # "block"
                              THEN [frontmatter |->
                                        Put(ended, line.key, Str(Unquote(line.value))),
                                    current_key |-> "",
                                    current_value_lines |-> << >>,
                                    in_multiline |-> FALSE]
                            ELSE [frontmatter |-> ended, current_key |-> line.key,
                                  current_value_lines |-> << >>,
                                  in_multiline |-> FALSE]
            ELSE st
        RECURSIVE Loop(_, _)
        Loop(st, lines) ==
            IF lines = << >> THEN st ELSE Loop(Step(st, Head(lines)), Tail(lines))
        start == [frontmatter |-> [k \in {} |-> << >>], current_key |-> "",
                  current_value_lines |-> << >>, in_multiline |-> FALSE]
        end == Loop(start, content.lines)
    IN  IF ~content.start
          THEN [errors |-> << <<"frontmatter-must-start">> >>,
                frontmatter |-> start.frontmatter]
        ELSE IF ~content.closed
          THEN [errors |-> << <<"frontmatter-missing-close">> >>,
                frontmatter |-> start.frontmatter]
        ELSE [errors |-> << >>,
              frontmatter |->
                  IF end.current_key # "" /\ end.current_value_lines # << >>
                    THEN Put(end.frontmatter, end.current_key,
                             Strip(end.current_value_lines))
                  ELSE end.frontmatter]

\* _load_skill_md on a SKILL.md that exists and can be read
LoadSkillMd(content) ==
    /\ skl.pc = "idle"
    /\ skl' = [pc |-> "done", skill_md_content |-> content,
               errors |-> ParseFrontmatter(content).errors,
               frontmatter |-> ParseFrontmatter(content).frontmatter]
    /\ UNCHANGED SklOtherVars

NextFm ==
    \/ /\ skl.pc = "idle"
       /\ \E content \in SkillMdContents : LoadSkillMd(content)
    \/ ExitSkills

SpecFm == InitConn /\ [][NextFm]_vars

(***************************************************************************)
(* Properties of _parse_frontmatter                                        *)
(***************************************************************************)
\* C24 as stated: _parse_frontmatter records every root-level key of the
\* frontmatter, for any number and order of keys: a scalar key maps to its
\* value with surrounding quotes removed, and a block scalar key maps to
\* its indented continuation lines joined by single spaces, the block
\* ending at the next unindented line, which is parsed as a key of its own.
C24_Original ==
    (skl.pc = "done" /\ skl.skill_md_content.start /\ skl.skill_md_content.closed) =>
        LET lines == skl.skill_md_content.lines
            roots == {i \in 1..Len(lines) : ~lines[i].indent /\ lines[i].kind = "pair"}
            RootLine(key) == CHOOSE i \in roots : lines[i].key = key
            \* the last line of the block that starts after line i
            BlockEnd(i) ==
                CHOOSE j \in i..Len(lines) :
                    /\ \A m \in (i + 1)..j : lines[m].indent
                    /\ j < Len(lines) => ~lines[j + 1].indent
            Expected(i) ==
                IF lines[i].value.kind = "block"
                  THEN [m \in 1..(BlockEnd(i) - i) |->
                           [key |-> lines[i + m].key, value |-> lines[i + m].value]]
                ELSE IF lines[i].value.kind \in {"double", "single"}
                  THEN << [key |-> "", value |-> Value("plain", lines[i].value.text)] >>
                ELSE << [key |-> "", value |-> lines[i].value] >>
        IN  /\ DOMAIN skl.frontmatter = {lines[i].key : i \in roots}
            /\ \A key \in DOMAIN skl.frontmatter :
                  skl.frontmatter[key] = Expected(RootLine(key))

====
